---- MODULE Spec2Model ----
(***************************************************************************)
(* A model of the geometry core of david7a68/shiny: the change list that   *)
(* patches a path's point buffers, the curve BVH, the flattening driver,   *)
(* the Bezier-clipping intersection search and the copy-on-write pixel     *)
(* buffer.  Coordinates are integers; indices and ids are 0-based as in    *)
(* the Rust source and are shifted by one where a TLA+ sequence is read.   *)
(***************************************************************************)
EXTENDS Integers, Sequences, FiniteSets, TLC

VARIABLES
    debug,  \* TRUE: a build with debug_assertions, FALSE: a release build
    path,   \* shapes::path::Path           [x, y, segments]
    cl,     \* cpatch::ChangeList           [x, y, changes]
    ap,     \* outcome of the last ChangeList::apply call
    bvh,    \* curve_bvh::Builder storage   [nodes, curves]
    fl,     \* the flattening driver's locals and position
    fs,     \* the intersection search: result list and stack of pending branches
    pb,     \* pixel buffers: handles, iterators and the Rc-managed raw buffers
    nm,     \* cpatch::normalize: the call's position and the Rect it returned
    ub,     \* utils::bounding_volume::Bvh  [nodes, indices, items]
    sn,     \* bezier::splitn: the two output buffers and the call's arguments
    cv,     \* PixelBuffer::convert: the source buffer and the handle returned
    av,     \* utils::arrayvec::ArrayVec: length, slots and the drops seen so far
    si,     \* path::PathBuilder, the Path it built and a SegmentIter's cursors
    pa      \* shapes::path::Builder, the Path it built and what was pushed

vars == <<debug, path, cl, ap, bvh, fl, fs, pb, nm, ub, sn, cv, av, si, pa>>

\* The value of a variable that a specification does not use.
Unused == [unused |-> TRUE]

(***************************************************************************)
(* Bounds of the model.                                                    *)
(***************************************************************************)
MaxCurves == 3      \* curves in a path of the change-list specification
MaxSegments == 2    \* segments in such a path
MaxChanges == 3     \* Replace records held by a change list
MaxApplies == 1     \* ChangeList::apply calls followed in one behaviour
MaxCoord == 2       \* largest coordinate of an anchor point of a BVH path
TScale == 16        \* curve parameters are the multiples of 1 / TScale in [0, 1]
MaxHits == 9        \* most crossings of the two curves handed to find()
MaxFlatCurves == 4  \* curves of a path handed to flatten
MaxRuns == 2        \* flatten calls followed in one behaviour
MaxPasses == 3      \* passes of flatten's loop followed in one call
MaxHandles == 2     \* PixelBuffer handles alive at once
MaxIters == 1       \* PixelBufferIter values alive at once
Width == 2          \* width of the pixel buffer
Height == 1         \* height of the pixel buffer
MaxLevel == 1       \* a stored channel value is in 0..MaxLevel
MaxSets == 2        \* PixelBuffer::set calls before a convert
AvCapacity == 3     \* the capacity N of the ArrayVec<T, N>
MaxElements == 4    \* elements handed to one ArrayVec in its lifetime
MaxCalls == 3       \* calls on a path builder before build
MaxStack == 3       \* nested calls of SegmentIter::next the stack has room for
MaxSplits == 2      \* split parameters handed to one splitn call
MaxSplitCalls == 2  \* splitn calls on the same pair of buffers

(***************************************************************************)
(* Sequence helpers.                                                       *)
(***************************************************************************)
Min2(a, b) == IF a < b THEN a ELSE b
Max2(a, b) == IF a > b THEN a ELSE b

RECURSIVE SumSeq(_)
SumSeq(s) == IF s = <<>> THEN 0 ELSE Head(s) + SumSeq(Tail(s))

\* Vec::splice(from..=to, run) on a 0-based vector.
Splice(v, from, to, run) ==
    SubSeq(v, 1, from) \o run \o SubSeq(v, to + 2, Len(v))

(***************************************************************************)
(* Path: parallel x / y buffers and one length per segment.  A segment of  *)
(* length L holds L points and (L - 1) / 3 curves.                         *)
(***************************************************************************)
NumPoints(p) == Len(p.x)

\* Offset of the first point of segment `seg` (0-based), as Builder::build
\* accumulates it.
RECURSIVE SegmentOffset(_, _)
SegmentOffset(segments, seg) ==
    IF seg = 0 THEN 0
    ELSE SegmentOffset(segments, seg - 1) + segments[seg]

\* Path positions at which a curve starts.
CurveStarts(p) ==
    UNION { { SegmentOffset(p.segments, s) + 3 * i :
                i \in 0..(((p.segments[s + 1] - 1) \div 3) - 1) } :
            s \in 0..(Len(p.segments) - 1) }

\* The segment (0-based) that holds path position `pos`.
SegmentOf(p, pos) ==
    CHOOSE s \in 0..(Len(p.segments) - 1) :
        /\ SegmentOffset(p.segments, s) <= pos
        /\ pos < SegmentOffset(p.segments, s) + p.segments[s + 1]

(***************************************************************************)
(* ChangeList                                                              *)
(***************************************************************************)
EmptyChangeList == [x |-> <<>>, y |-> <<>>, changes |-> <<>>]

\* ChangeList::clear
ClearList(c) == EmptyChangeList

\* ChangeList::replace: the writer appends run_x / run_y to the buffers and
\* a Replace record remembers where they are and where they go.
ReplaceIn(c, segment, position, run_x, run_y) ==
    [x |-> c.x \o run_x,
     y |-> c.y \o run_y,
     changes |-> Append(c.changes,
        [position |-> position,
         segment_id |-> segment,
         first_point |-> Len(c.x),
         one_past_last_point |-> Len(c.x) + Len(run_x)])]

\* The run of points a record refers to.
RunX(c, ch) == SubSeq(c.x, ch.first_point + 1, ch.one_past_last_point)
RunY(c, ch) == SubSeq(c.y, ch.first_point + 1, ch.one_past_last_point)

\* Inserts `ch` behind every record whose position is not larger: the stable
\* order of slice::sort_by.
RECURSIVE InsertByPosition(_, _)
InsertByPosition(ch, sorted) ==
    IF sorted = <<>> THEN <<ch>>
    ELSE IF Head(sorted).position <= ch.position
         THEN <<Head(sorted)>> \o InsertByPosition(ch, Tail(sorted))
         ELSE <<ch>> \o sorted

RECURSIVE SortedPrefix(_, _)
SortedPrefix(changes, n) ==
    IF n = 0 THEN <<>>
    ELSE InsertByPosition(changes[n], SortedPrefix(changes, n - 1))

\* A plausible slip: the records are applied in the order they were recorded.
SortByPositionNone(changes) == changes

\* self.changes.sort_by(|a, b| a.position.cmp(&b.position))
SortByPosition(changes) == SortedPrefix(changes, Len(changes))

\* A plausible slip: the overlap check lets records 2 positions apart pass
\* and does not look at the segment ids.
OrderingOkWeak(sorted) ==
    \A i \in 2..Len(sorted) : sorted[i - 1].position + 2 <= sorted[i].position

\* The #[cfg(debug_assertions)] loop in front of the splices.
OrderingOk(sorted) ==
    \A i \in 2..Len(sorted) :
        /\ sorted[i - 1].position + 3 <= sorted[i].position
        /\ sorted[i - 1].segment_id <= sorted[i].segment_id

\* A plausible slip: the offset holds the growth of the last record only.
NextOffsetLast(offset, run_len) == run_len - 4

\* offset += new_x.len() - 4
NextOffset(offset, run_len) == offset + (run_len - 4)

\* A plausible slip: the segment grows by the whole run.
GrowSegmentByRun(segments, segment_id, run_len) ==
    [segments EXCEPT ![segment_id + 1] = @ + run_len]

\* path.segments[change.segment_id].length += new_x.len() - 4
GrowSegment(segments, segment_id, run_len) ==
    [segments EXCEPT ![segment_id + 1] = @ + (run_len - 4)]

\* One iteration of the splice loop on the loop state
\* st = [x, y, segments, offset, landing, status].
ApplyOne(st, c, ch, dbg) ==
    LET position == ch.position + st.offset
        new_x == RunX(c, ch)
        new_y == RunY(c, ch)
    IN  IF \/ position + 3 >= Len(st.x)       \* index / splice range panics
           \/ Len(new_x) = 0                 \* new_x[0] panics
        THEN [st EXCEPT !.status = "abort"]
        ELSE IF dbg /\ ~ ( /\ st.x[position + 1] = new_x[1]
                           /\ st.y[position + 1] = new_y[1]
                           /\ st.x[position + 4] = new_x[Len(new_x)]
                           /\ st.y[position + 4] = new_y[Len(new_y)] )
        THEN [st EXCEPT !.status = "abort"]      \* debug_assert_eq! fails
        ELSE LET x2 == Splice(st.x, position, position + 3, new_x)
                 y2 == Splice(st.y, position, position + 3, new_y)
             IN  IF \/ ch.segment_id >= Len(st.segments)
                    \/ Len(new_x) < 4            \* new_x.len() - 4 underflows
                 THEN [st EXCEPT !.x = x2, !.y = y2, !.status = "abort"]
                 ELSE [x |-> x2,
                       y |-> y2,
                       segments |-> GrowSegment(st.segments, ch.segment_id,
                                                Len(new_x)),
                       offset |-> NextOffset(st.offset, Len(new_x)),
                       landing |-> Append(st.landing, position),
                       status |-> "ok"]

RECURSIVE ApplyLoop(_, _, _, _, _)
ApplyLoop(st, c, sorted, i, dbg) ==
    IF i > Len(sorted) \/ st.status = "abort" THEN st
    ELSE ApplyLoop(ApplyOne(st, c, sorted[i], dbg), c, sorted, i + 1, dbg)

\* A plausible slip: the final clear() empties the path's buffers instead of
\* the change list's.
ApplyFinishPath(st) == [st EXCEPT !.x = <<>>, !.y = <<>>]

\* self.changes.clear(); self.x.clear(); self.y.clear() leave the path alone.
ApplyFinish(st) == st

\* ChangeList::apply on path p: the final loop state.
ApplyChanges(p, c, dbg) ==
    LET sorted == SortByPosition(c.changes)
        st0 == [x |-> p.x, y |-> p.y, segments |-> p.segments,
                offset |-> 0, landing |-> <<>>, status |-> "ok"]
    IN  IF dbg /\ ~OrderingOk(sorted)
        THEN [st0 EXCEPT !.status = "abort"]     \* assert! fails
        ELSE LET st == ApplyLoop(st0, c, sorted, 1, dbg)
             IN  IF st.status = "abort" THEN st ELSE ApplyFinish(st)

(***************************************************************************)
(* Rect and the coarse bounds of a curve.  top is the smaller y, as in     *)
(* normalize's Rect::new(min_x, max_x, min_y, max_y).                      *)
(***************************************************************************)
RectNew(left, right, top, bottom) ==
    [left |-> left, right |-> right, top |-> top, bottom |-> bottom]

\* Rect::default()
RectDefault == RectNew(0, 0, 0, 0)

\* The union `a | b` of two rectangles.
RectUnion(a, b) ==
    RectNew(Min2(a.left, b.left), Max2(a.right, b.right),
            Min2(a.top, b.top), Max2(a.bottom, b.bottom))

\* Rect::area: width times height of the bound.
RectArea(r) == (r.right - r.left) * (r.bottom - r.top)

\* Rect::centroid, kept doubled so that it stays an integer: the build only
\* compares centroids with each other.
RectCentroid2(r) == [x |-> r.left + r.right, y |-> r.top + r.bottom]

SetMin(S) == CHOOSE m \in S : \A n \in S : m <= n
SetMax(S) == CHOOSE m \in S : \A n \in S : m >= n

\* Builder::get_slice(curve, path).coarse_bounds(): min / max of the 4
\* control points that start at first_point.
CoarseBounds(p, first_point) ==
    LET xs == { p.x[first_point + k] : k \in 1..4 }
        ys == { p.y[first_point + k] : k \in 1..4 }
    IN  RectNew(SetMin(xs), SetMax(xs), SetMin(ys), SetMax(ys))

(***************************************************************************)
(* curve_bvh::Builder                                                      *)
(***************************************************************************)
F32Max == 1000000000   \* stands for f32::MAX: above every cost of the model

\* A plausible slip: fresh nodes are stamped with 1.
FreshStampOne == 0 + 1

\* last_touched: Cell::new(0)
FreshStamp == 0

EmptyNode ==
    [bbox |-> RectDefault, last_touched |-> FreshStamp, kind |-> "Empty",
     first_curve |-> 0, num_curves |-> 0, left_then_right |-> 0]

LeafNode(bbox, first_curve, num_curves) ==
    [bbox |-> bbox, last_touched |-> FreshStamp, kind |-> "Leaf",
     first_curve |-> first_curve, num_curves |-> num_curves, left_then_right |-> 0]

\* The Curve records of one segment: one per 3 points after the first.
SegmentCurves(p, segment_id) ==
    LET offset == SegmentOffset(p.segments, segment_id)
        n == (p.segments[segment_id + 1] - 1) \div 3
    IN  [i \in 1..n |->
            [segment_id |-> segment_id,
             centroid |-> RectCentroid2(CoarseBounds(p, offset + 3 * (i - 1))),
             first_point |-> offset + 3 * (i - 1)]]

\* self.curves after the loop over path.iter().zip(0..)
RECURSIVE CollectCurves(_, _)
CollectCurves(p, nseg) ==
    IF nseg = 0 THEN <<>>
    ELSE CollectCurves(p, nseg - 1) \o SegmentCurves(p, nseg - 1)

\* Builder::compute_bounds(curves, path)
RECURSIVE FoldBounds(_, _, _, _)
FoldBounds(bounds, curves, i, p) ==
    IF i > Len(curves) THEN bounds
    ELSE FoldBounds(RectUnion(bounds, CoarseBounds(p, curves[i].first_point)),
                    curves, i + 1, p)

ComputeBounds(curves, p) ==
    IF curves = <<>> THEN RectDefault
    ELSE FoldBounds(CoarseBounds(p, curves[1].first_point), curves, 2, p)

\* Option<Rect>
None == [some |-> FALSE]
Some(v) == [some |-> TRUE, v |-> v]
\* Option::map(|b| b | bounds): None stays None.
OptionUnion(opt, bounds) ==
    IF opt.some THEN Some(RectUnion(opt.v, bounds)) ELSE None
\* Option::map_or(0.0, |b| n as f32 * b.area())
OptionCost(opt, n) == IF opt.some THEN n * RectArea(opt.v) ELSE 0

AxisPos(curve, axis) == IF axis = "X" THEN curve.centroid.x ELSE curve.centroid.y

\* The loop of Builder::evaluate_sah over the curves of the leaf, on
\* acc = [left, num_left, right, num_right].
RECURSIVE SahLoop(_, _, _, _, _, _, _)
SahLoop(acc, curves, node, i, axis, position, p) ==
    IF i >= node.num_curves THEN acc
    ELSE LET curve == curves[node.first_curve + i + 1]
             cb == CoarseBounds(p, curve.first_point)
         IN  SahLoop(
                IF AxisPos(curve, axis) < position
                THEN [acc EXCEPT !.num_left = @ + 1, !.left = OptionUnion(@, cb)]
                ELSE [acc EXCEPT !.num_right = @ + 1, !.right = OptionUnion(@, cb)],
                curves, node, i + 1, axis, position, p)

\* Builder::evaluate_sah
EvaluateSah(curves, node, axis, position, p) ==
    LET acc == SahLoop([left |-> None, num_left |-> 0, right |-> None, num_right |-> 0],
                       curves, node, 0, axis, position, p)
    IN  OptionCost(acc.left, acc.num_left) + OptionCost(acc.right, acc.num_right)

\* One of the two candidate loops of Builder::find_split_axis, on
\* best = [axis, pos, cost].
RECURSIVE SplitLoop(_, _, _, _, _, _)
SplitLoop(best, curves, node, i, axis, p) ==
    IF i >= node.num_curves THEN best
    ELSE LET candidate_pos == AxisPos(curves[node.first_curve + i + 1], axis)
             cost == EvaluateSah(curves, node, axis, candidate_pos, p)
         IN  SplitLoop(
                IF cost < best.cost
                THEN [axis |-> axis, pos |-> candidate_pos, cost |-> cost]
                ELSE best,
                curves, node, i + 1, axis, p)

\* Builder::find_split_axis
FindSplitAxis(nodes, curves, node_id, p) ==
    LET node == nodes[node_id + 1]
        afterX == SplitLoop([axis |-> "X", pos |-> 0, cost |-> F32Max],
                            curves, node, 0, "X", p)
    IN  SplitLoop(afterX, curves, node, 0, "Y", p)

\* A plausible slip: the exchange is left out.
SwapAtNone(seq, i, j) == seq

\* Vec::swap(i, j)
SwapAt(seq, i, j) == [seq EXCEPT ![i + 1] = seq[j + 1], ![j + 1] = seq[i + 1]]

\* The two-pointer loop `while i <= j` of Builder::subdivide: the curves
\* and the final i.
RECURSIVE PartitionLoop(_, _, _, _, _)
PartitionLoop(curves, i, j, axis, split_pos) ==
    IF i > j THEN [curves |-> curves, i |-> i]
    ELSE IF AxisPos(curves[i + 1], axis) < split_pos
         THEN PartitionLoop(curves, i + 1, j, axis, split_pos)
         ELSE PartitionLoop(SwapAt(curves, i, j), i, j - 1, axis, split_pos)

\* A plausible slip: a leaf of a single curve is subdivided as well.
IsTerminalLeafNever(leaf) == leaf.num_curves < 1

\* if leaf.num_curves <= 1 { return; }
IsTerminalLeaf(leaf) == leaf.num_curves <= 1

\* Builder::subdivide(node_id, path) on storage b = [nodes, curves].
Subdivide(b, node_id, p) ==
    LET left_idx == Len(b.nodes)
        split == FindSplitAxis(b.nodes, b.curves, node_id, p)
        leaf == b.nodes[node_id + 1]
    IN  IF IsTerminalLeaf(leaf) THEN b
        ELSE
        LET part == PartitionLoop(b.curves, leaf.first_curve,
                        leaf.first_curve + leaf.num_curves - 1, split.axis, split.pos)
            i == part.i
            left_count == i - leaf.first_curve
            node_cost == leaf.num_curves * RectArea(leaf.bbox)
        IN  IF split.cost >= node_cost
            THEN [b EXCEPT !.curves = part.curves]
            ELSE [nodes |->
                    [b.nodes EXCEPT ![node_id + 1] =
                        [@ EXCEPT !.kind = "Branch", !.left_then_right = left_idx,
                                  !.first_curve = 0, !.num_curves = 0]]
                    \o << LeafNode(ComputeBounds(
                                SubSeq(part.curves, leaf.first_curve + 1, i), p),
                            leaf.first_curve, left_count),
                          LeafNode(ComputeBounds(
                                SubSeq(part.curves, i + 1,
                                       leaf.first_curve + leaf.num_curves), p),
                            i, leaf.num_curves - left_count) >>,
                  curves |-> part.curves]

\* Number of curves of a path: the sum of (segment.length - 1) / 3.
NumCurves(p) ==
    SumSeq([s \in 1..Len(p.segments) |-> (p.segments[s] - 1) \div 3])

\* Builder::build(path): the storage is cleared, refilled and subdivided.
Build(p) ==
    LET curves == CollectCurves(p, Len(p.segments))
        root == LeafNode(ComputeBounds(curves, p), 0, NumCurves(p))
    IN  Subdivide([nodes |-> <<root, EmptyNode>>, curves |-> curves], 0, p)

\* The buffer that stands for a call ended by the unreachable!() of an
\* Empty node: one entry that names no node.
Unreachable == <<[node |-> 0 - 1, first_curve |-> 0, num_curves |-> 0]>>

\* A plausible slip: the origin node is not left out.
RECURSIVE IntersectAll(_, _, _, _)
IntersectAll(nodes, origin_idx, buffer, current_node_idx) ==
    IF buffer = Unreachable THEN buffer
    ELSE LET node == nodes[current_node_idx + 1]
         IN  CASE node.kind = "Empty" -> Unreachable
               [] node.kind = "Leaf" ->
                    Append(buffer, [node |-> current_node_idx,
                                    first_curve |-> node.first_curve,
                                    num_curves |-> node.num_curves])
               [] node.kind = "Branch" ->
                    IntersectAll(nodes, origin_idx,
                        IntersectAll(nodes, origin_idx, buffer, node.left_then_right),
                        node.left_then_right + 1)

\* CurveBvh::intersect(origin_idx, bounds, buffer, current_node_idx): the
\* buffer after the call.
RECURSIVE Intersect(_, _, _, _)
Intersect(nodes, origin_idx, buffer, current_node_idx) ==
    IF origin_idx = current_node_idx \/ buffer = Unreachable THEN buffer
    ELSE LET node == nodes[current_node_idx + 1]
         IN  CASE node.kind = "Empty" -> Unreachable
               [] node.kind = "Leaf" ->
                    Append(buffer, [node |-> current_node_idx,
                                    first_curve |-> node.first_curve,
                                    num_curves |-> node.num_curves])
               [] node.kind = "Branch" ->
                    Intersect(nodes, origin_idx,
                        Intersect(nodes, origin_idx, buffer, node.left_then_right),
                        node.left_then_right + 1)

\* CurveBvh::find_intersecting_with(node_idx, buffer)
FindIntersectingWith(nodes, node_idx) == Intersect(nodes, node_idx, <<>>, 0)

(***************************************************************************)
(* The change-list specification: a path, Replace records recorded in any  *)
(* order, and ChangeList::apply.                                           *)
(***************************************************************************)

\* Segment lengths of the paths: 1..MaxSegments segments, each of 1 or more
\* curves, MaxCurves curves at most.
PathShapes ==
    { s \in UNION { [1..n -> { 3 * k + 1 : k \in 1..MaxCurves }] : n \in 1..MaxSegments } :
        SumSeq([i \in 1..Len(s) |-> (s[i] - 1) \div 3]) <= MaxCurves }

\* The path of the unit test tests::replace, generalised: point i has
\* x = i + 1 and y = i + 11.
PathOfShape(s) ==
    [x |-> [i \in 1..SumSeq(s) |-> i],
     y |-> [i \in 1..SumSeq(s) |-> i + 10],
     segments |-> s]

\* What a writer closure appends for the curve at `pos`: run_len points,
\* new interior points between the curve's first and last point (keeps, as
\* splitn writes them) or in front of another last point (~keeps).
WriterRun(buf, pos, run_len, keeps, mark) ==
    [k \in 1..run_len |->
        IF k = 1 THEN buf[pos + 1]
        ELSE IF k = run_len
             THEN (IF keeps THEN buf[pos + 4] ELSE mark)
             ELSE mark + k]

RunLens == {4, 7}

ApInit ==
    /\ debug \in BOOLEAN
    /\ path \in { PathOfShape(s) : s \in PathShapes }
    /\ cl = EmptyChangeList
    /\ \E keeps \in BOOLEAN :
        ap = [status |-> "idle", applied |-> 0, keeps |-> keeps, pre |-> path,
              recorded |-> <<>>, recs |-> <<>>, landing |-> <<>>]
    /\ bvh = Unused /\ fl = Unused /\ fs = Unused /\ pb = Unused
    /\ nm = Unused /\ ub = Unused
    /\ sn = Unused /\ cv = Unused /\ av = Unused /\ si = Unused /\ pa = Unused

\* change_list.replace(segment, position, writer)
ApReplace(segment, position, run_len) ==
    /\ ap.applied < MaxApplies
    /\ Len(cl.changes) < MaxChanges
    /\ cl' = ReplaceIn(cl, segment, position,
                WriterRun(path.x, position, run_len, ap.keeps, 100 + 10 * Len(cl.changes)),
                WriterRun(path.y, position, run_len, ap.keeps, 200 + 10 * Len(cl.changes)))
    /\ UNCHANGED <<debug, path, ap, bvh, fl, fs, pb, nm, ub, sn, cv, av, si, pa>>

\* change_list.clear()
ApClear ==
    /\ ap.applied < MaxApplies
    /\ cl.changes # <<>>
    /\ cl' = ClearList(cl)
    /\ UNCHANGED <<debug, path, ap, bvh, fl, fs, pb, nm, ub, sn, cv, av, si, pa>>

\* The records of c with their runs, for the outcome record.
WithRuns(c, changes) ==
    [i \in 1..Len(changes) |->
        [position |-> changes[i].position,
         segment_id |-> changes[i].segment_id,
         run_x |-> RunX(c, changes[i]),
         run_y |-> RunY(c, changes[i])]]

\* change_list.apply(&mut path)
ApApply ==
    /\ ap.applied < MaxApplies
    /\ LET st == ApplyChanges(path, cl, debug)
       IN  /\ path' = [x |-> st.x, y |-> st.y, segments |-> st.segments]
           /\ cl' = IF st.status = "ok" THEN ClearList(cl)
                    ELSE [cl EXCEPT !.changes = SortByPosition(cl.changes)]
           /\ ap' = [status |-> st.status,
                     applied |-> ap.applied + 1,
                     keeps |-> ap.keeps,
                     pre |-> path,
                     recorded |-> WithRuns(cl, cl.changes),
                     recs |-> WithRuns(cl, SortByPosition(cl.changes)),
                     landing |-> st.landing]
    /\ UNCHANGED <<debug, bvh, fl, fs, pb, nm, ub, sn, cv, av, si, pa>>

ApNext ==
    \/ \E segment \in 0..(Len(path.segments) - 1),
          position \in 0..(NumPoints(path) - 4),
          run_len \in RunLens :
            ApReplace(segment, position, run_len)
    \/ ApClear
    \/ ApApply

SpecApply == ApInit /\ [][ApNext]_vars

(***************************************************************************)
(* Claims about ChangeList::apply, checked under SpecApply.  `ap` holds    *)
(* the path before the call (pre), the records as recorded (recorded), the *)
(* records in the order the splice loop took them (recs), the index at     *)
(* which each landed (landing) and how the call ended (status).            *)
(***************************************************************************)
Abs(n) == IF n < 0 THEN -n ELSE n

\* Every record sits on a curve start of p and no two are closer than 3.
PositionsApart(p, R) ==
    /\ \A i \in DOMAIN R : R[i].position \in CurveStarts(p)
    /\ \A i, j \in DOMAIN R : i # j => Abs(R[i].position - R[j].position) >= 3

\* Every run has at least 4 points and starts and ends with the first and
\* last point of the curve it replaces.
RunsKeepEnds(p, R) ==
    \A i \in DOMAIN R :
        /\ Len(R[i].run_x) >= 4
        /\ R[i].run_x[1] = p.x[R[i].position + 1]
        /\ R[i].run_y[1] = p.y[R[i].position + 1]
        /\ R[i].run_x[Len(R[i].run_x)] = p.x[R[i].position + 4]
        /\ R[i].run_y[Len(R[i].run_y)] = p.y[R[i].position + 4]

\* Record j follows record i when the records are put in position order.
FollowsInPositionOrder(R, i, j) ==
    /\ R[i].position < R[j].position
    /\ ~ \E k \in DOMAIN R :
            R[i].position < R[k].position /\ R[k].position < R[j].position

\* Segment ids do not decrease from a record to the next in position order.
SegmentsAscend(R) ==
    \A i, j \in DOMAIN R :
        FollowsInPositionOrder(R, i, j) => R[i].segment_id <= R[j].segment_id

\* The buffer obtained from buf by replacing the 4-point span of each record
\* in S by its run, the highest position first, so that no index shifts.
RECURSIVE ReplaceSpans(_, _, _, _)
ReplaceSpans(buf, R, S, isX) ==
    IF S = {} THEN buf
    ELSE LET i == CHOOSE i \in S : \A j \in S : R[j].position <= R[i].position
             run == IF isX THEN R[i].run_x ELSE R[i].run_y
         IN  ReplaceSpans(Splice(buf, R[i].position, R[i].position + 3, run),
                          R, S \ {i}, isX)

\* Growth of the records of R that lie below position pos.
GrowthBelow(R, pos) ==
    SumSeq([i \in DOMAIN R |->
        IF R[i].position < pos THEN Len(R[i].run_x) - 4 ELSE 0])

\* The call returned, the buffers are the original with every span replaced
\* by its run, and every record landed at position + growth below it.
ApplyYieldsSpans ==
    /\ ap.status = "ok"
    /\ path.x = ReplaceSpans(ap.pre.x, ap.recorded, DOMAIN ap.recorded, TRUE)
    /\ path.y = ReplaceSpans(ap.pre.y, ap.recorded, DOMAIN ap.recorded, FALSE)
    /\ Len(ap.landing) = Len(ap.recs)
    /\ \A i \in DOMAIN ap.recs :
            ap.landing[i] = ap.recs[i].position + GrowthBelow(ap.recs, ap.recs[i].position)

\* C3 as stated: for records on curve starts at least 3 apart whose runs keep
\* the old first and last point, recorded in any order, apply yields the
\* original buffers with each 4-point span replaced by its run, and each
\* record lands at its position plus the growth of the records below it.
C3_AnyRecords ==
    (ap.status # "idle" /\ PositionsApart(ap.pre, ap.recorded)
        /\ RunsKeepEnds(ap.pre, ap.recorded))
    => ApplyYieldsSpans

\* C3 amended: the same, for records whose segment ids do not decrease as
\* their positions increase.
C3_SplicesInPositionOrder ==
    (ap.status # "idle" /\ PositionsApart(ap.pre, ap.recorded)
        /\ RunsKeepEnds(ap.pre, ap.recorded) /\ SegmentsAscend(ap.recorded))
    => ApplyYieldsSpans

\* Three records, recorded out of position order, all applied, the later
\* ones shifted by the growth of the earlier ones.
C3_Witness ==
    /\ ap.status = "ok"
    /\ Len(ap.recorded) = 3
    /\ PositionsApart(ap.pre, ap.recorded)
    /\ RunsKeepEnds(ap.pre, ap.recorded)
    /\ ap.recorded[1].position > ap.recorded[2].position
    /\ ap.landing[3] > ap.recs[3].position + 3

\* C4: applying a change list without records leaves x, y and every segment
\* length of the path as they were.
C4_EmptyListKeepsPath ==
    (ap.status # "idle" /\ ap.recorded = <<>>)
    => (ap.status = "ok" /\ path = ap.pre)

C4_Witness ==
    ap.status = "ok" /\ ap.recorded = <<>> /\ path = ap.pre

\* Two records closer than 3 positions, or a segment id lower than that of
\* the record before it in position order.
OrderViolated(R) ==
    \/ \E i, j \in DOMAIN R : i # j /\ Abs(R[i].position - R[j].position) < 3
    \/ ~SegmentsAscend(R)

\* C5: with assertions enabled, apply aborts without having changed a point
\* or a segment length when two records are fewer than 3 positions apart
\* or a record's segment id is lower than its predecessor's.
C5_AbortsBeforeModifying ==
    (debug /\ ap.status # "idle" /\ OrderViolated(ap.recorded))
    => (ap.status = "abort" /\ path = ap.pre)

\* Two records for the same curve, whose second alone would have grown the
\* path, in a build with assertions.
C5_Witness ==
    /\ debug
    /\ ap.status = "abort"
    /\ Len(ap.recorded) >= 2
    /\ ap.recorded[1].position = ap.recorded[2].position
    /\ Len(ap.recorded[1].run_x) = 7
    /\ path = ap.pre

(***************************************************************************)
(* The BVH specification: a path of line-like cubics between anchor points *)
(* of a small grid, Builder::build and the leaf query.                     *)
(***************************************************************************)
Grid == (0..MaxCoord) \X (0..MaxCoord)

NumAnchors(shape) == SumSeq([i \in 1..Len(shape) |-> (shape[i] - 1) \div 3 + 1])

\* Index (1-based) of the anchor that gives point `pos` (0-based) its
\* coordinates: curve i of a segment is (a_i, a_i, a_i+1, a_i+1).
AnchorOf(shape, pos) ==
    LET seg == SegmentOf([segments |-> shape], pos)
        j == pos - SegmentOffset(shape, seg)
        before == SumSeq([i \in 1..seg |-> (shape[i] - 1) \div 3 + 1])
    IN  before + ((j + 1) \div 3) + 1

AnchorPath(shape, anchors) ==
    [x |-> [i \in 1..SumSeq(shape) |-> anchors[AnchorOf(shape, i - 1)][1]],
     y |-> [i \in 1..SumSeq(shape) |-> anchors[AnchorOf(shape, i - 1)][2]],
     segments |-> shape]

EmptyStorage == [nodes |-> <<>>, curves |-> <<>>]

BvhInit ==
    /\ \E shape \in PathShapes :
        \E anchors \in [1..NumAnchors(shape) -> Grid] :
            path = AnchorPath(shape, anchors)
    /\ bvh = [store |-> EmptyStorage, built |-> FALSE, origin |-> 0, buffer |-> <<>>]
    /\ debug = TRUE
    /\ cl = Unused /\ ap = Unused /\ fl = Unused /\ fs = Unused /\ pb = Unused
    /\ nm = Unused /\ ub = Unused
    /\ sn = Unused /\ cv = Unused /\ av = Unused /\ si = Unused /\ pa = Unused

\* bvh_builder.build(path)
BvhBuild ==
    /\ ~bvh.built
    /\ bvh' = [bvh EXCEPT !.store = Build(path), !.built = TRUE]
    /\ UNCHANGED <<debug, path, cl, ap, fl, fs, pb, nm, ub, sn, cv, av, si, pa>>

\* bvh.find_intersecting_with(node_idx, &mut buffer) for a leaf of the tree
BvhQuery(node_idx) ==
    /\ bvh.built
    /\ node_idx < Len(bvh.store.nodes)
    /\ bvh.store.nodes[node_idx + 1].kind = "Leaf"
    /\ bvh' = [bvh EXCEPT !.origin = node_idx,
                          !.buffer = FindIntersectingWith(bvh.store.nodes, node_idx)]
    /\ UNCHANGED <<debug, path, cl, ap, fl, fs, pb, nm, ub, sn, cv, av, si, pa>>

BvhNext ==
    \/ BvhBuild
    \/ \E node_idx \in 0..3 : BvhQuery(node_idx)

SpecBvh == BvhInit /\ [][BvhNext]_vars

(***************************************************************************)
(* Claims about the built tree, checked under SpecBvh.                     *)
(***************************************************************************)
BvhNodes == bvh.store.nodes

\* C6 as stated: a path of N >= 1 curves gives at most 2N - 1 nodes.
C6_AtMost2NMinus1 ==
    (bvh.built /\ NumCurves(path) >= 1)
    => Len(BvhNodes) <= 2 * NumCurves(path) - 1

\* C6 amended: a path of N >= 1 curves gives at most 2N nodes, the Empty
\* node kept at index 1 included.
C6_AtMost2N ==
    (bvh.built /\ NumCurves(path) >= 1)
    => Len(BvhNodes) <= 2 * NumCurves(path)

\* Two curves, a committed split: root, the Empty node and two leaves.
C6_Witness ==
    /\ bvh.built
    /\ NumCurves(path) = 2
    /\ Len(BvhNodes) = 4
    /\ BvhNodes[1].kind = "Branch"

\* The smallest rectangle around the control points of the curve records
\* first..first+n-1 of the tree.
BoundsOfRange(first, n) ==
    LET pts == UNION { { bvh.store.curves[c + 1].first_point + k : k \in 1..4 } :
                       c \in first..(first + n - 1) }
    IN  RectNew(SetMin({ path.x[i] : i \in pts }), SetMax({ path.x[i] : i \in pts }),
                SetMin({ path.y[i] : i \in pts }), SetMax({ path.y[i] : i \in pts }))

\* C7: every leaf's bbox is the union of the coarse bounds of its curves and
\* every branch's bbox is the union of the bboxes of its two children, also
\* when the partition puts every curve on one side.
C7_BoundsAreUnions ==
    bvh.built =>
        \A n \in 1..Len(BvhNodes) :
            /\ (BvhNodes[n].kind = "Leaf" /\ BvhNodes[n].num_curves > 0)
                => BvhNodes[n].bbox =
                        BoundsOfRange(BvhNodes[n].first_curve, BvhNodes[n].num_curves)
            /\ BvhNodes[n].kind = "Branch"
                => BvhNodes[n].bbox =
                        RectUnion(BvhNodes[BvhNodes[n].left_then_right + 1].bbox,
                                  BvhNodes[BvhNodes[n].left_then_right + 2].bbox)

(***************************************************************************)
(* The intersection search, shapes::bezier::intersection.  A CurvePart is  *)
(* its range [start, end] of the curve's parameter, in units of 1/TScale;  *)
(* one unit is more than the tolerance F32_APPROX_EQUAL_THRESHOLD, so two  *)
(* parameters are approx_eq exactly when they are equal.  The control      *)
(* points are not modelled: the two curves are given by the set of         *)
(* parameter pairs (t_a, t_b) at which they cross, and by how tightly      *)
(* clip() encloses the crossings of the ranges it is given.                *)
(***************************************************************************)
MaxIterations == 15     \* assert!(num_iterations < 15, ...)
Capacity == 9           \* ArrayVec<(f32, f32), 9>

CurvePartNew(start, end) == [start |-> start, end |-> end]

\* CurvePart::length
PartLength(c) == c.end - c.start

\* CurvePart::split(0.5)
PartSplit(c) ==
    LET at == c.start + (c.end - c.start) \div 2
    IN  <<CurvePartNew(c.start, at), CurvePartNew(at, c.end)>>

\* CurvePart::is_valid
PartIsValid(c) ==
    /\ 0 <= c.start /\ c.start <= TScale
    /\ 0 <= c.end /\ c.end <= TScale
    /\ c.start <= c.end

\* f32::approx_eq on parameters
ApproxEq(s, t) == s = t

\* The parameters, on the curve being clipped (1 for a, 2 for b), of the
\* crossings that lie in both ranges.
CrossingsIn(hits, a, b, which) ==
    {h[which] : h \in {g \in hits : /\ a.start <= g[1] /\ g[1] <= a.end
                                    /\ b.start <= g[2] /\ g[2] <= b.end}}

\* clip() and the map_to_original of its two results.  A clip encloses
\* every crossing of the two ranges; it returns end < start when there is
\* none.  A "tight" clip returns exactly the hull of the crossings; a
\* "slow" one removes a quarter of the range from one end when the
\* crossings allow it and nothing otherwise.
ClipMapped(curve, ts, policy) ==
    LET target == (3 * PartLength(curve)) \div 4
    IN  IF ts = {} THEN CurvePartNew(curve.end, curve.start)
        ELSE IF policy = "tight" THEN CurvePartNew(SetMin(ts), SetMax(ts))
        ELSE IF SetMax(ts) <= curve.start + target
             THEN CurvePartNew(curve.start, curve.start + target)
        ELSE IF SetMin(ts) >= curve.end - target
             THEN CurvePartNew(curve.end - target, curve.end)
        ELSE curve

\* proportion_remaining < 0.0; the quotient is NaN for a part of length 0.
ProportionNegative(old, new) == PartLength(old) > 0 /\ PartLength(new) < 0

\* proportion_remaining > 0.8
ProportionLarge(old, new) ==
    PartLength(old) > 0 /\ 5 * PartLength(new) > 4 * PartLength(old)

\* ArrayVec::is_full
IsFull(items) == Len(items) = Capacity

\* A plausible slip: the loop goes on at the iteration cap.
IterationCapIgnored(n) == FALSE

\* !(num_iterations < 15)
IterationCapHit(n) == n >= MaxIterations

Frame(a, b) == [a |-> a, b |-> b, n |-> 0]

\* The frame on top of the stack, the invocation that is running.
Top == fs.stack[1]

\* The crossings of the two curves: k of them, evenly spaced in t_a and in
\* t_b, with t_b running the same way as t_a or the other way.
HitsOf(k, first, step_a, step_b, mirrored) ==
    {<<first + i * step_a,
       IF mirrored THEN TScale - i * step_b ELSE i * step_b>> : i \in 0..(k - 1)}

\* A second crossing at the first crossing's t_a: b passes through that
\* point of a again at its end.
TwinOf(k, first, twin) ==
    IF twin /\ k >= 1 THEN {<<first, TScale>>} ELSE {}

\* find(a, b): an empty ArrayVec and both curves at their full range.
FsInit ==
    /\ debug \in BOOLEAN
    /\ \E k \in 0..MaxHits, first \in 0..1, step_a \in 2..3, step_b \in 1..2,
          mirrored \in BOOLEAN, twin \in BOOLEAN, policy \in {"tight", "slow"} :
            /\ first + (k - 1) * step_a <= TScale
            /\ fs = [hits |-> HitsOf(k, first, step_a, step_b, mirrored)
                                \cup TwinOf(k, first, twin),
                     policy |-> policy,
                     stack |-> <<Frame(CurvePartNew(0, TScale), CurvePartNew(0, TScale))>>,
                     intersections |-> <<>>,
                     status |-> "running"]
    /\ path = Unused /\ cl = Unused /\ ap = Unused /\ bvh = Unused
    /\ fl = Unused /\ pb = Unused
    /\ nm = Unused /\ ub = Unused
    /\ sn = Unused /\ cv = Unused /\ av = Unused /\ si = Unused /\ pa = Unused

Running == fs.status = "running" /\ fs.stack # <<>>

\* debug_assert!(a.is_valid()); debug_assert!(b.is_valid())
AssertsValid == ~debug \/ (PartIsValid(Top.a) /\ PartIsValid(Top.b))

\* The assertions at the head of the loop, in the order of the code: the
\* first one that fails aborts the search.
FailedAssertion ==
    IF ~AssertsValid THEN "panic_invalid"
    ELSE IF IterationCapHit(Top.n) THEN "panic_iterations"
    ELSE IF IsFull(fs.intersections) THEN "panic_full"
    ELSE "none"

\* assert!(num_iterations < 15, "Hit max iterations, ...")
FsHitMaxIterations ==
    /\ Running
    /\ FailedAssertion \in {"panic_invalid", "panic_iterations"}
    /\ fs' = [fs EXCEPT !.status = FailedAssertion]
    /\ UNCHANGED <<debug, path, cl, ap, bvh, fl, pb, nm, ub, sn, cv, av, si, pa>>

\* assert!(!intersections.is_full(), "Hit max intersections, ...")
FsHitMaxIntersections ==
    /\ Running
    /\ FailedAssertion = "panic_full"
    /\ fs' = [fs EXCEPT !.status = FailedAssertion]
    /\ UNCHANGED <<debug, path, cl, ap, bvh, fl, pb, nm, ub, sn, cv, av, si, pa>>

\* calc(): the frame after this iteration's clip, a on even iterations and
\* b on odd ones.
Calc(f) ==
    IF f.n % 2 = 0
    THEN [f EXCEPT !.a = ClipMapped(f.a, CrossingsIn(fs.hits, f.a, f.b, 1), fs.policy)]
    ELSE [f EXCEPT !.b = ClipMapped(f.b, CrossingsIn(fs.hits, f.a, f.b, 2), fs.policy)]

ClipNegative(f) ==
    IF f.n % 2 = 0 THEN ProportionNegative(f.a, Calc(f).a)
    ELSE ProportionNegative(f.b, Calc(f).b)

ClipLarge(f) ==
    IF f.n % 2 = 0 THEN ProportionLarge(f.a, Calc(f).a)
    ELSE ProportionLarge(f.b, Calc(f).b)

Collapsed(f) == ApproxEq(PartLength(f.a) + PartLength(f.b), 0)

CanClip == Running /\ FailedAssertion = "none"

\* A branch that lacks its `break`: the invocation stays on the stack.
ReturnNever(stack) == stack

\* The invocation on top returns: its caller goes on with the next frame.
Return(stack) == Tail(stack)

\* proportion_remaining < 0.0: no intersection in this region.
FsNoIntersection ==
    /\ CanClip
    /\ ClipNegative(Top)
    /\ fs' = [fs EXCEPT !.stack = Return(@)]
    /\ UNCHANGED <<debug, path, cl, ap, bvh, fl, pb, nm, ub, sn, cv, av, si, pa>>

\* The pair is pushed unless the last pair's t_a is approx_eq to a.start.
Records(items, f) ==
    items = <<>> \/ ~ApproxEq(items[Len(items)][1], f.a.start)

\* The ranges have collapsed: (a.start, b.start) is recorded, or ignored
\* as a repetition.  ArrayVec::push panics at capacity.
FsCollapsed ==
    /\ CanClip
    /\ ~ClipNegative(Top)
    /\ Collapsed(Calc(Top))
    /\ LET f == Calc(Top)
       IN  IF ~Records(fs.intersections, f)
           THEN fs' = [fs EXCEPT !.stack = Return(@)]
           ELSE IF Len(fs.intersections) >= Capacity
           THEN fs' = [fs EXCEPT !.status = "panic_push"]
           ELSE fs' = [fs EXCEPT
                    !.stack = Return(@),
                    !.intersections = Append(@, <<f.a.start, f.b.start>>)]
    /\ UNCHANGED <<debug, path, cl, ap, bvh, fl, pb, nm, ub, sn, cv, av, si, pa>>

\* proportion_remaining > 0.8: the longer part is split in half and each
\* half is searched against the other part, the left half first.
FsBisect ==
    /\ CanClip
    /\ ~ClipNegative(Top)
    /\ ~Collapsed(Calc(Top))
    /\ ClipLarge(Top)
    /\ LET f == Calc(Top)
           halves == IF PartLength(f.a) > PartLength(f.b)
                     THEN <<Frame(PartSplit(f.a)[1], f.b), Frame(PartSplit(f.a)[2], f.b)>>
                     ELSE <<Frame(f.a, PartSplit(f.b)[1]), Frame(f.a, PartSplit(f.b)[2])>>
       IN  fs' = [fs EXCEPT !.stack = halves \o Tail(@)]
    /\ UNCHANGED <<debug, path, cl, ap, bvh, fl, pb, nm, ub, sn, cv, av, si, pa>>

\* Otherwise: num_iterations += 1 and the loop goes on.
FsContinue ==
    /\ CanClip
    /\ ~ClipNegative(Top)
    /\ ~Collapsed(Calc(Top))
    /\ ~ClipLarge(Top)
    /\ fs' = [fs EXCEPT !.stack = <<[Calc(Top) EXCEPT !.n = @ + 1]>> \o Tail(@)]
    /\ UNCHANGED <<debug, path, cl, ap, bvh, fl, pb, nm, ub, sn, cv, av, si, pa>>

\* find() returns the list once the outermost invocation has returned.
FsReturn ==
    /\ fs.status = "running" /\ fs.stack = <<>>
    /\ fs' = [fs EXCEPT !.status = "returned"]
    /\ UNCHANGED <<debug, path, cl, ap, bvh, fl, pb, nm, ub, sn, cv, av, si, pa>>

FsNext ==
    \/ FsHitMaxIterations
    \/ FsHitMaxIntersections
    \/ FsNoIntersection
    \/ FsCollapsed
    \/ FsBisect
    \/ FsContinue
    \/ FsReturn

SpecFind == FsInit /\ [][FsNext]_vars

\* The search is a sequential program: it takes its next step whenever it
\* has one.
SpecFindFair == SpecFind /\ WF_vars(FsNext)

Items == {fs.intersections[i] : i \in 1..Len(fs.intersections)}

\* C8: the search aborts for capacity only when a 10th pair is about to be
\* recorded: when it aborts with 9 different pairs in the list, some
\* crossing of the two curves is still missing from the list.
C8_AbortsOnlyOnTenth ==
    (fs.status = "panic_full" /\ Cardinality(Items) = Capacity) =>
        fs.hits \ Items # {}

\* C9: an invocation that has completed 15 clip steps aborts with "Hit max
\* iterations" at its next iteration and records nothing.
C9_CapAborts ==
    [][(Running /\ Top.n >= MaxIterations) =>
          /\ fs'.status = "panic_iterations"
          /\ fs'.intersections = fs.intersections]_vars

C9_Witness ==
    /\ fs.status = "panic_iterations"
    /\ Top.n = MaxIterations

(***************************************************************************)
(* PixelBuffer, the copy-on-write pixel buffer of src/pixel_buffer.rs      *)
(* ("shiny") and of crates/image/src/pixelbuffer.rs ("image").  A handle   *)
(* and an iterator each hold one Rc to a RawPixelBuffer; the heap maps a   *)
(* buffer to its pixels, one channel value for each pixel offset.          *)
(***************************************************************************)
Handles == 1..MaxHandles
Iters == 1..MaxIters
Bufs == 1..(MaxHandles + MaxIters)
NoBuf == 0
Free == <<>>
Offsets == 0..(Width * Height - 1)

\* The colors a caller may pass: channel values below, in and above [0, 1]
\* for src/pixel_buffer.rs, the values of the color type for the image crate.
Colors(variant) ==
    IF variant = "shiny" THEN (0 - 1)..(MaxLevel + 1) ELSE 0..MaxLevel

\* PixelFormat::write_color clamps the channel to [0, 1] and quantises it;
\* the image crate stores the color value itself.
WriteColor(variant, color) ==
    IF variant = "shiny" THEN Max2(0, Min2(MaxLevel, color)) ELSE color

\* Rc::strong_count: the handles and iterators that hold the buffer.
StrongCount(p, b) ==
    Cardinality({h \in Handles : p.handles[h] = b})
        + Cardinality({i \in Iters : p.iters[i].buffer = b})

\* Drop of an Rc: a buffer nobody holds is freed.
Release(p) ==
    [p EXCEPT !.heap = [b \in Bufs |->
        IF StrongCount(p, b) = 0 THEN Free ELSE p.heap[b]]]

\* The allocation a copy is placed in.
FreshBuf(p) == SetMin({b \in Bufs : p.heap[b] = Free})

\* A plausible slip: the write goes to the shared buffer.
MakeMutInPlace(p, h) == p

\* Rc::make_mut(&mut self.raw): clones the RawPixelBuffer into a new Rc
\* when other owners exist, and leaves a sole owner's buffer where it is.
MakeMut(p, h) ==
    IF StrongCount(p, p.handles[h]) > 1
    THEN [p EXCEPT !.handles[h] = FreshBuf(p),
                   !.heap[FreshBuf(p)] = p.heap[p.handles[h]]]
    ELSE p

\* RawPixelBuffer::new: all zero in src/pixel_buffer.rs; the image crate
\* leaves the pixels uninitialised, so their values are arbitrary.
NewPixels(variant) ==
    IF variant = "shiny" THEN {[o \in Offsets |-> 0]}
    ELSE [Offsets -> 0..MaxLevel]

PbInit ==
    /\ debug \in BOOLEAN
    /\ \E variant \in {"shiny", "image"} : \E pixels \in NewPixels(variant) :
        pb = [variant |-> variant,
              handles |-> [h \in Handles |-> IF h = 1 THEN 1 ELSE NoBuf],
              iters |-> [i \in Iters |-> [buffer |-> NoBuf, offset |-> 0]],
              heap |-> [b \in Bufs |-> IF b = 1 THEN pixels ELSE Free],
              op |-> [name |-> "new", h |-> 1]]
    /\ path = Unused /\ cl = Unused /\ ap = Unused /\ bvh = Unused
    /\ fl = Unused /\ fs = Unused
    /\ nm = Unused /\ ub = Unused
    /\ sn = Unused /\ cv = Unused /\ av = Unused /\ si = Unused /\ pa = Unused

Alive(p, h) == p.handles[h] # NoBuf

\* #[derive(Clone)], Image::get_pixels, and convert() to the same format.
PbClone(h, new) ==
    /\ Alive(pb, h) /\ ~Alive(pb, new)
    /\ pb' = [pb EXCEPT !.handles[new] = pb.handles[h],
                        !.op = [name |-> "clone", h |-> new]]
    /\ UNCHANGED <<debug, path, cl, ap, bvh, fl, fs, nm, ub, sn, cv, av, si, pa>>

\* PixelBuffer::iter
PbIter(h, i) ==
    /\ Alive(pb, h) /\ pb.iters[i].buffer = NoBuf
    /\ pb.variant = "shiny"
    /\ pb' = [pb EXCEPT !.iters[i] = [buffer |-> pb.handles[h], offset |-> 0],
                        !.op = [name |-> "iter", h |-> h]]
    /\ UNCHANGED <<debug, path, cl, ap, bvh, fl, fs, nm, ub, sn, cv, av, si, pa>>

\* PixelBufferIter::next
PbIterNext(i) ==
    /\ pb.iters[i].buffer # NoBuf
    /\ pb.iters[i].offset < Width * Height
    /\ pb' = [pb EXCEPT !.iters[i].offset = @ + 1,
                        !.op = [name |-> "next", h |-> NoBuf]]
    /\ UNCHANGED <<debug, path, cl, ap, bvh, fl, fs, nm, ub, sn, cv, av, si, pa>>

\* A handle goes out of scope.
PbDrop(h) ==
    /\ Alive(pb, h)
    /\ pb' = Release([pb EXCEPT !.handles[h] = NoBuf,
                                !.op = [name |-> "drop", h |-> h]])
    /\ UNCHANGED <<debug, path, cl, ap, bvh, fl, fs, nm, ub, sn, cv, av, si, pa>>

\* An iterator goes out of scope.
PbDropIter(i) ==
    /\ pb.iters[i].buffer # NoBuf
    /\ pb' = Release([pb EXCEPT !.iters[i] = [buffer |-> NoBuf, offset |-> 0],
                                !.op = [name |-> "drop", h |-> NoBuf]])
    /\ UNCHANGED <<debug, path, cl, ap, bvh, fl, fs, nm, ub, sn, cv, av, si, pa>>

\* RawPixelBuffer::set; the write is skipped where the slice index panics.
RawSet(p, h, x, y, color) ==
    IF Width * y + x \in Offsets
    THEN [p EXCEPT !.heap[p.handles[h]][Width * y + x] = WriteColor(p.variant, color)]
    ELSE p

\* PixelBuffer::set.  src/pixel_buffer.rs ignores a pixel outside the
\* buffer; the image crate calls make_mut and indexes unguarded.
PbSet(h, x, y, color) ==
    /\ Alive(pb, h)
    /\ LET done == IF pb.variant = "shiny" /\ ~(x < Width /\ y < Height)
                   THEN pb
                   ELSE Release(RawSet(MakeMut(pb, h), h, x, y, color))
       IN  pb' = [done EXCEPT !.op = [name |-> "set", h |-> h]]
    /\ UNCHANGED <<debug, path, cl, ap, bvh, fl, fs, nm, ub, sn, cv, av, si, pa>>

\* PixelBuffer::clear
PbClear(h, color) ==
    /\ Alive(pb, h)
    /\ pb.variant = "shiny"
    /\ LET mine == MakeMut(pb, h)
           done == [mine EXCEPT !.heap[mine.handles[h]] =
                        [o \in Offsets |-> WriteColor(pb.variant, color)]]
       IN  pb' = [Release(done) EXCEPT !.op = [name |-> "clear", h |-> h]]
    /\ UNCHANGED <<debug, path, cl, ap, bvh, fl, fs, nm, ub, sn, cv, av, si, pa>>

PbNext ==
    \/ \E h \in Handles, new \in Handles : PbClone(h, new)
    \/ \E h \in Handles, i \in Iters : PbIter(h, i)
    \/ \E i \in Iters : PbIterNext(i)
    \/ \E h \in Handles : PbDrop(h)
    \/ \E i \in Iters : PbDropIter(i)
    \/ \E h \in Handles, x \in 0..Width, y \in 0..Height, color \in Colors(pb.variant) :
        PbSet(h, x, y, color)
    \/ \E h \in Handles, color \in Colors(pb.variant) : PbClear(h, color)

SpecPixel == PbInit /\ [][PbNext]_vars

\* The pixels read through a handle, and through an iterator.
View(p, h) == p.heap[p.handles[h]]
IterView(p, i) == p.heap[p.iters[i].buffer]

Mutates(p) == p.op.name \in {"set", "clear"}

\* A set or clear leaves every other handle and every iterator on its
\* buffer, with the pixels it had.
OthersUntouched ==
    Mutates(pb') =>
        /\ \A g \in Handles : (Alive(pb, g) /\ g # pb'.op.h) =>
            /\ pb'.handles[g] = pb.handles[g]
            /\ View(pb', g) = View(pb, g)
        /\ \A i \in Iters : pb.iters[i].buffer # NoBuf =>
            /\ pb'.iters[i] = pb.iters[i]
            /\ IterView(pb', i) = IterView(pb, i)

\* A new handle or iterator is on the buffer of an existing handle, and
\* two handles on one buffer stay on one buffer until one of them is the
\* target of a set or clear.
SharedUntilMutation ==
    /\ \A g \in Handles : (~Alive(pb, g) /\ Alive(pb', g)) =>
        /\ \E g0 \in Handles : Alive(pb, g0) /\ pb'.handles[g] = pb.handles[g0]
        /\ pb'.heap = pb.heap
    /\ \A i \in Iters : (pb.iters[i].buffer = NoBuf /\ pb'.iters[i].buffer # NoBuf) =>
        /\ \E g0 \in Handles : Alive(pb, g0) /\ pb'.iters[i].buffer = pb.handles[g0]
        /\ pb'.heap = pb.heap
    /\ \A g1, g2 \in Handles :
        (/\ Alive(pb, g1) /\ Alive(pb', g1) /\ Alive(pb, g2) /\ Alive(pb', g2)
         /\ pb.handles[g1] = pb.handles[g2]
         /\ pb'.handles[g1] # pb'.handles[g2])
            => (Mutates(pb') /\ pb'.op.h \in {g1, g2})

\* A set or clear through the sole owner of a buffer writes that buffer:
\* nothing is allocated.
SoleOwnerInPlace ==
    (Mutates(pb') /\ StrongCount(pb, pb.handles[pb'.op.h]) = 1) =>
        /\ pb'.handles[pb'.op.h] = pb.handles[pb'.op.h]
        /\ {b \in Bufs : pb'.heap[b] # Free} = {b \in Bufs : pb.heap[b] # Free}

\* C10: a set or clear through one handle never changes the pixels read
\* through another handle that existed before the call; handles share a
\* buffer until such a mutation; a sole owner is mutated in place.
C10_CopyOnWrite ==
    [][OthersUntouched /\ SharedUntilMutation /\ SoleOwnerInPlace]_vars

\* A set or clear has copied: its handle has left the buffer that another
\* handle and an iterator are still on, and now holds different pixels.
C10_Witness ==
    /\ Mutates(pb)
    /\ \E g \in Handles :
        /\ g # pb.op.h /\ Alive(pb, g) /\ Alive(pb, pb.op.h)
        /\ pb.handles[g] # pb.handles[pb.op.h]
        /\ View(pb, g) # View(pb, pb.op.h)
        /\ \E i \in Iters : pb.iters[i].buffer = pb.handles[g]

(***************************************************************************)
(* flatten, the graph-flattening driver of backends::common::cpatch.  The  *)
(* intersection engine is represented by the crossings it reports for the  *)
(* curves of the scenes: two different curves that pass through one point  *)
(* at t = 1/2 cross there.                                                 *)
(***************************************************************************)
Half == [num |-> 1, den |-> 2]

\* The curve whose 4 control points start at path position first_point.
CurveAt(p, first_point) ==
    [x |-> SubSeq(p.x, first_point + 1, first_point + 4),
     y |-> SubSeq(p.y, first_point + 1, first_point + 4)]

\* 8 times the point of the curve at t = 1/2.
Mid8(c) ==
    <<c.x[1] + 3 * c.x[2] + 3 * c.x[3] + c.x[4],
      c.y[1] + 3 * c.y[2] + 3 * c.y[3] + c.y[4]>>

\* Bezier::find_intersections: (node_splits, candidate_splits)
FindIntersections(c, other) ==
    IF c # other /\ Mid8(c) = Mid8(other)
    THEN [a |-> <<Half>>, b |-> <<Half>>]
    ELSE [a |-> <<>>, b |-> <<>>]

\* lerp of two coordinates at t = num / den
Lerp(a, b, t) == a + ((b - a) * t.num) \div t.den

\* split(curve, t) on one coordinate list: the 7 points of the two halves.
SplitCoords(v, t) ==
    LET mid_01 == Lerp(v[1], v[2], t)
        mid_12 == Lerp(v[2], v[3], t)
        mid_23 == Lerp(v[3], v[4], t)
        mid_01_12 == Lerp(mid_01, mid_12, t)
        mid_12_23 == Lerp(mid_12, mid_23, t)
        midpoint == Lerp(mid_01_12, mid_12_23, t)
    IN  <<v[1], mid_01, mid_01_12, midpoint, mid_12_23, mid_23, v[4]>>

\* (t - prev_t) / (1.0 - prev_t)
Relative(t, prev_t) ==
    [num |-> t.num * prev_t.den - prev_t.num * t.den,
     den |-> t.den * (prev_t.den - prev_t.num)]

\* The loop of splitn on one coordinate list: what is appended after the
\* first point.
RECURSIVE SplitLoopN(_, _, _, _)
SplitLoopN(remainder, ts, i, prev_t) ==
    IF i > Len(ts) THEN SubSeq(remainder, 2, 4)
    ELSE LET s == SplitCoords(remainder, Relative(ts[i], prev_t))
         IN  SubSeq(s, 2, 4) \o SplitLoopN(SubSeq(s, 4, 7), ts, i + 1, ts[i])

\* A splitn that leaves out `buffer_x.push(curve.x[0])`.
SplitNWithoutFirst(v, ts) ==
    IF ts = <<>> THEN <<>>
    ELSE SplitLoopN(v, ts, 1, [num |-> 0, den |-> 1])

\* splitn(curve, t, buffer_x, buffer_y): the points appended to a buffer.
SplitN(v, ts) ==
    IF ts = <<>> THEN <<>>
    ELSE <<v[1]>> \o SplitLoopN(v, ts, 1, [num |-> 0, den |-> 1])

\* .filter(|(c_node_id, _)| bvh.nodes[c_node_id].last_touched.get() != iteration)
CandidateOpen(nodes, c_node_id, iteration) ==
    nodes[c_node_id + 1].last_touched # iteration

\* The body of `if !node_splits.is_empty()` on the scan state
\* st = [nodes, cl, found, replaces].
RecordCrossing(st, p, iteration, node_idx, curve, c_node_id, c_curve, splits) ==
    LET own == CurveAt(p, curve.first_point)
        cand == CurveAt(p, c_curve.first_point)
        cl1 == ReplaceIn(st.cl, curve.segment_id, curve.first_point,
                         SplitN(own.x, splits.a), SplitN(own.y, splits.a))
        cl2 == ReplaceIn(cl1, c_curve.segment_id, c_curve.first_point,
                         SplitN(cand.x, splits.b), SplitN(cand.y, splits.b))
    IN  [nodes |-> [st.nodes EXCEPT ![node_idx + 1].last_touched = iteration,
                                    ![c_node_id + 1].last_touched = iteration],
         cl |-> cl2,
         found |-> TRUE,
         replaces |-> st.replaces + 2]

\* The (node, curve) pairs of the intersection buffer, flat_map'ed.
RECURSIVE Candidates(_, _, _)
Candidates(curves, buffer, k) ==
    IF k > Len(buffer) THEN <<>>
    ELSE [i \in 1..buffer[k].num_curves |->
            [node |-> buffer[k].node, curve |-> curves[buffer[k].first_curve + i]]]
         \o Candidates(curves, buffer, k + 1)

\* The inner loop for one curve of the leaf: it ends at the first crossing.
RECURSIVE ScanCandidates(_, _, _, _, _, _, _)
ScanCandidates(st, p, iteration, node_idx, curve, cands, k) ==
    IF k > Len(cands) THEN st
    ELSE IF ~CandidateOpen(st.nodes, cands[k].node, iteration)
    THEN ScanCandidates(st, p, iteration, node_idx, curve, cands, k + 1)
    ELSE LET splits == FindIntersections(CurveAt(p, curve.first_point),
                                         CurveAt(p, cands[k].curve.first_point))
         IN  IF splits.a # <<>>
             THEN RecordCrossing(st, p, iteration, node_idx, curve,
                                 cands[k].node, cands[k].curve, splits)
             ELSE ScanCandidates(st, p, iteration, node_idx, curve, cands, k + 1)

\* for (curve, segment_id, first_point) in bvh.curves_in(leaf, path)
RECURSIVE ScanCurves(_, _, _, _, _, _, _)
ScanCurves(st, p, curves, iteration, node_idx, cands, i) ==
    LET leaf == st.nodes[node_idx + 1]
    IN  IF i >= leaf.num_curves THEN st
        ELSE ScanCurves(
                ScanCandidates(st, p, iteration, node_idx,
                               curves[leaf.first_curve + i + 1], cands, 1),
                p, curves, iteration, node_idx, cands, i + 1)

\* for (node, node_idx) in bvh.nodes ... .filter(is_leaf)
RECURSIVE ScanLeaves(_, _, _, _, _)
ScanLeaves(st, p, curves, iteration, node_idx) ==
    IF node_idx >= Len(st.nodes) THEN st
    ELSE LET node == st.nodes[node_idx + 1]
             buffer == FindIntersectingWith(st.nodes, node_idx)
         IN  IF \/ node.kind # "Leaf"
                \/ (iteration > 0 /\ node.last_touched = iteration)
             THEN ScanLeaves(st, p, curves, iteration, node_idx + 1)
             ELSE ScanLeaves(
                    ScanCurves(st, p, curves, iteration, node_idx,
                               Candidates(curves, buffer, 1), 0),
                    p, curves, iteration, node_idx + 1)

\* The curves a scene is made of, each (P0, c, c, P3) in a segment of its
\* own: two pairs that cross at t = 1/2, and a curve that crosses nothing.
SceneCurves ==
    { [x |-> <<0, 8, 8, 0>>,    y |-> <<0, 0, 0, 8>>],
      [x |-> <<24, 0, 0, 24>>,  y |-> <<8, 0, 0, 0>>],
      [x |-> <<0, 8, 8, 0>>,    y |-> <<16, 16, 16, 24>>],
      [x |-> <<24, 0, 0, 24>>,  y |-> <<24, 16, 16, 16>>],
      [x |-> <<32, 40, 40, 48>>, y |-> <<0, 0, 8, 8>>] }

RECURSIVE ScenePath(_)
ScenePath(cs) ==
    IF cs = <<>> THEN [x |-> <<>>, y |-> <<>>, segments |-> <<>>]
    ELSE LET rest == ScenePath(Tail(cs))
         IN  [x |-> Head(cs).x \o rest.x,
              y |-> Head(cs).y \o rest.y,
              segments |-> <<4>> \o rest.segments]

\* A change buffer the caller has used before.
UsedChangeList ==
    [x |-> <<0, 0, 0, 0>>, y |-> <<0, 0, 0, 0>>,
     changes |-> <<[position |-> 0, segment_id |-> 0,
                    first_point |-> 0, one_past_last_point |-> 4]>>]

FlInit ==
    /\ debug \in BOOLEAN
    /\ \E n \in 1..MaxFlatCurves : \E cs \in [1..n -> SceneCurves] :
        /\ \A i, j \in 1..n : i # j => cs[i] # cs[j]
        /\ path = ScenePath(cs)
    /\ cl \in {EmptyChangeList, UsedChangeList}
    /\ bvh = EmptyStorage
    /\ fl = [pc |-> "idle", run |-> 0, iteration |-> 0, replaces |-> 0,
             applies |-> 0, first |-> <<>>]
    /\ ap = Unused /\ fs = Unused /\ pb = Unused
    /\ nm = Unused /\ ub = Unused
    /\ sn = Unused /\ cv = Unused /\ av = Unused /\ si = Unused /\ pa = Unused

\* flatten(path, change_buffer, bvh_builder) is called: change_buffer.clear()
\* and iteration = 0.
FlStart ==
    /\ fl.pc \in {"idle", "done"}
    /\ fl.run < MaxRuns
    /\ cl' = ClearList(cl)
    /\ fl' = [fl EXCEPT !.pc = "loop", !.run = @ + 1, !.iteration = 0,
                        !.replaces = 0, !.applies = 0]
    /\ UNCHANGED <<debug, path, ap, bvh, fs, pb, nm, ub, sn, cv, av, si, pa>>

\* The end of a pass that found a crossing: change_buffer.apply(path) has
\* ended in the loop state `done`.
FlApplied(st, done) ==
    /\ path' = [x |-> done.x, y |-> done.y, segments |-> done.segments]
    /\ cl' = IF done.status = "abort" THEN st.cl ELSE EmptyChangeList
    /\ fl' = [fl EXCEPT
            !.pc = IF done.status = "abort" THEN "abort" ELSE "loop",
            !.iteration = @ + 1,
            !.replaces = st.replaces,
            !.applies = @ + 1]

\* The end of a pass whose scan has ended in st: iteration += 1, then the
\* changes are applied or the loop is left.
FlScanned(st) ==
    IF st.found
    THEN FlApplied(st, ApplyChanges(path, st.cl, debug))
    ELSE /\ fl' = [fl EXCEPT !.pc = "exit", !.iteration = @ + 1]
         /\ UNCHANGED <<path, cl>>

\* A pass on the BVH just built.
FlScan(store, st) ==
    /\ bvh' = [store EXCEPT !.nodes = st.nodes]
    /\ FlScanned(st)

FlBuilt(store) ==
    FlScan(store,
           ScanLeaves([nodes |-> store.nodes, cl |-> cl, found |-> FALSE,
                       replaces |-> fl.replaces],
                      path, store.curves, fl.iteration, 0))

\* One pass of the loop: the BVH is built, the leaves are scanned,
\* iteration += 1, and the changes are applied or the loop is left.
FlPass ==
    /\ fl.pc = "loop"
    /\ fl.iteration < MaxPasses
    /\ FlBuilt(Build(path))
    /\ UNCHANGED <<debug, ap, fs, pb, nm, ub, sn, cv, av, si, pa>>

\* The loop is left: flatten returns bvh_builder.build(path).
FlReturn ==
    /\ fl.pc = "exit"
    /\ bvh' = Build(path)
    /\ fl' = [fl EXCEPT !.pc = "done",
                        !.first = IF fl.run = 1 THEN path ELSE @]
    /\ UNCHANGED <<debug, path, cl, ap, fs, pb, nm, ub, sn, cv, av, si, pa>>

FlNext ==
    \/ FlStart
    \/ FlPass
    \/ FlReturn

SpecFlatten == FlInit /\ [][FlNext]_vars

\* Two different curves of the path for which the engine reports a crossing.
CrossingPairs(p) ==
    {pair \in CurveStarts(p) \X CurveStarts(p) :
        /\ pair[1] # pair[2]
        /\ FindIntersections(CurveAt(p, pair[1]), CurveAt(p, pair[2])).a # <<>>}

\* C1: when flatten returns, the intersection engine's result is empty for
\* every pair of distinct curves of the returned path.
C1_NoCrossingsLeft ==
    fl.pc = "done" => CrossingPairs(path) = {}

\* C2: a second flatten run on the path the first run produced calls
\* ChangeList.replace and ChangeList.apply zero times and leaves the point
\* buffers and the segment lengths as they were.
C2_SecondRunIdle ==
    fl.run = 2 =>
        /\ fl.replaces = 0
        /\ fl.applies = 0
        /\ path = fl.first

\* The second run has returned, on a path of several curves.
C2_Witness ==
    /\ fl.run = 2
    /\ fl.pc = "done"
    /\ NumCurves(path) >= 2

\* ---------------------------------------------------------------------
\* PixelBuffer::new (src/pixel_buffer.rs) and the bit depths it compares.
\* ---------------------------------------------------------------------

PixelFormats == {"Rgba8", "Rgb10a2"}
Spaces == {"Unknown", "Srgb", "LinearSrgb", "Rec2020"}

\* PixelFormat::bits_per_channel
FormatBitsPerChannel(format) ==
    CASE format = "Rgba8" -> 8
      [] format = "Rgb10a2" -> 10

\* PixelFormat::bytes_per_pixel
BytesPerPixel(format) ==
    CASE format = "Rgba8" -> 4
      [] format = "Rgb10a2" -> 4

\* Space::bits_per_channel
SpaceBitsPerChannel(space) ==
    CASE space = "Unknown" -> 0
      [] space = "Srgb" -> 8
      [] space = "LinearSrgb" -> 10
      [] space = "Rec2020" -> 10

\* RawPixelBuffer::new: zeroed bytes, the stride of one row.
RawPixelBufferNew(width, height, format, color_space) ==
    [row_stride |-> width * BytesPerPixel(format),
     format |-> format,
     color_space |-> color_space,
     bytes |-> [o \in 0..(width * height * BytesPerPixel(format) - 1) |-> 0]]

\* PixelBuffer::new
PixelBufferNew(width, height, format, color_space) ==
    IF FormatBitsPerChannel(format) > SpaceBitsPerChannel(color_space)
    THEN [tag |-> "Err",
          error |-> "InsufficientBitDepth",
          requested_format |-> format,
          requested_color_space |-> color_space]
    ELSE [tag |-> "Ok",
          raw |-> RawPixelBufferNew(width, height, format, color_space)]

\* The calls made so far, each with its arguments and what it returned.
NewInit ==
    /\ debug \in BOOLEAN
    /\ pb = [calls |-> <<>>]
    /\ path = Unused /\ cl = Unused /\ ap = Unused /\ bvh = Unused
    /\ fl = Unused /\ fs = Unused
    /\ nm = Unused /\ ub = Unused
    /\ sn = Unused /\ cv = Unused /\ av = Unused /\ si = Unused /\ pa = Unused

NewCall(width, height, format, color_space) ==
    /\ Len(pb.calls) < MaxRuns
    /\ pb' = [calls |-> Append(pb.calls,
                [format |-> format,
                 color_space |-> color_space,
                 width |-> width,
                 height |-> height,
                 result |-> PixelBufferNew(width, height, format, color_space)])]
    /\ UNCHANGED <<debug, path, cl, ap, bvh, fl, fs, nm, ub, sn, cv, av, si, pa>>

NewNext ==
    \E width \in 1..Width, height \in 1..Height,
       format \in PixelFormats, color_space \in Spaces :
        NewCall(width, height, format, color_space)

SpecNew == NewInit /\ [][NewNext]_vars

\* C11: PixelBuffer::new returns Error::InsufficientBitDepth exactly when
\* the format's bits per channel are fewer than the bits per channel the
\* color space requires, and a buffer for every other combination.
C11_ErrIffTooFewBits ==
    \A i \in 1..Len(pb.calls) :
        LET call == pb.calls[i]
        IN  (call.result.tag = "Err") <=>
                (FormatBitsPerChannel(call.format)
                    < SpaceBitsPerChannel(call.color_space))

\* ---------------------------------------------------------------------
\* cpatch::normalize (src/backends/common/cpatch/mod.rs).
\* ---------------------------------------------------------------------

\* Rect::width
RectWidth(r) == r.right - r.left

\* Rect::height
RectHeight(r) == r.top - r.bottom

\* The quotient num / den of two floats that hold integers, kept as the
\* pair: den = 0 stands for the infinities and NaN of a division by zero.
Quotient(num, den) == [num |-> num, den |-> den]

\* 0 <= q <= 1 for a quotient.
InUnitInterval(q) ==
    \/ q.den > 0 /\ 0 <= q.num /\ q.num <= q.den
    \/ q.den < 0 /\ q.den <= q.num /\ q.num <= 0

\* The min! / max! loops over path.x[1..] and path.y[1..], started from
\* element 0.
RECURSIVE FoldMin(_, _)
FoldMin(acc, v) ==
    IF v = <<>> THEN acc ELSE FoldMin(Min2(acc, Head(v)), Tail(v))

RECURSIVE FoldMax(_, _)
FoldMax(acc, v) ==
    IF v = <<>> THEN acc ELSE FoldMax(Max2(acc, Head(v)), Tail(v))

\* The rect computed by normalize: Rect::new(min_x, max_x, min_y, max_y).
Extents(p) ==
    RectNew(FoldMin(p.x[1], Tail(p.x)), FoldMax(p.x[1], Tail(p.x)),
            FoldMin(p.y[1], Tail(p.y)), FoldMax(p.y[1], Tail(p.y)))

\* The rescaling loops of normalize.
Rescale(p, rect) ==
    [x |-> [i \in 1..Len(p.x) |->
                Quotient(p.x[i] - rect.left, RectWidth(rect))],
     y |-> [i \in 1..Len(p.y) |->
                Quotient(p.y[i] - rect.top, RectHeight(rect))],
     segments |-> p.segments]

\* One curve or two joined curves with control points on the grid.
NmInit ==
    /\ debug \in BOOLEAN
    /\ \E n \in {4, 7} : \E xs \in [1..n -> 0..MaxCoord] :
        \E y0 \in 0..MaxCoord, y1 \in 0..MaxCoord :
            path = [x |-> xs,
                    y |-> [i \in 1..n |-> IF i % 2 = 1 THEN y0 ELSE y1],
                    segments |-> <<n>>]
    /\ nm = [pc |-> "idle", before |-> <<>>, rect |-> RectDefault]
    /\ cl = Unused /\ ap = Unused /\ bvh = Unused /\ fl = Unused
    /\ fs = Unused /\ pb = Unused /\ ub = Unused
    /\ sn = Unused /\ cv = Unused /\ av = Unused /\ si = Unused /\ pa = Unused

\* normalize(path)
Normalize ==
    /\ nm.pc = "idle"
    /\ path' = Rescale(path, Extents(path))
    /\ nm' = [pc |-> "done", before |-> path, rect |-> Extents(path)]
    /\ UNCHANGED <<debug, cl, ap, bvh, fl, fs, pb, ub, sn, cv, av, si, pa>>

NmNext == Normalize

SpecNormalize == NmInit /\ [][NmNext]_vars

Range(v) == { v[i] : i \in 1..Len(v) }

\* C12: after normalize on a path whose x extent and y extent are both
\* non-zero, every x and every y coordinate lies in [0,1], and the
\* returned Rect holds the original minimum and maximum x and y.
C12_IntoUnitSquare ==
    (/\ nm.pc = "done"
     /\ SetMin(Range(nm.before.x)) # SetMax(Range(nm.before.x))
     /\ SetMin(Range(nm.before.y)) # SetMax(Range(nm.before.y)))
        => /\ \A i \in 1..Len(path.x) : InUnitInterval(path.x[i])
           /\ \A i \in 1..Len(path.y) : InUnitInterval(path.y[i])
           /\ nm.rect.left = SetMin(Range(nm.before.x))
           /\ nm.rect.right = SetMax(Range(nm.before.x))
           /\ {nm.rect.top, nm.rect.bottom} =
                {SetMin(Range(nm.before.y)), SetMax(Range(nm.before.y))}

\* ---------------------------------------------------------------------
\* utils::bounding_volume::Bvh over a list of rectangles
\* (src/utils/bounding_volume.rs).  Positions in items, indirect and nodes
\* are 0-based as in the code; an item is its own bounding box.
\* ---------------------------------------------------------------------

MaxItems == 3
MaxRebuildItems == 1
MaxQueries == 2

\* Rect::intersects_with
RectIntersects(a, b) ==
    /\ a.left <= b.right
    /\ a.top <= b.bottom
    /\ b.left <= a.right
    /\ b.top <= a.bottom

\* self.items[self.indirect[index]]
ItemAt(items, indirect, index) == items[indirect[index + 1] + 1]

\* A plausible slip: the bound of the first item only.
ComputeBoundsFirst(items, indirect) == ItemAt(items, indirect, 0)

RECURSIVE ComputeBoundsLoop(_, _, _, _)
ComputeBoundsLoop(aabb, items, indirect, k) ==
    IF k >= Len(indirect) THEN aabb
    ELSE ComputeBoundsLoop(RectUnion(aabb, ItemAt(items, indirect, k)),
                           items, indirect, k + 1)

\* bvh_impl::compute_bounds_indirect
ComputeBoundsIndirect(items, indirect) ==
    ComputeBoundsLoop(ItemAt(items, indirect, 0), items, indirect, 1)

\* The slice &bvh.indirect[first_indirect..first_indirect + count] that
\* leaf_items_indirect iterates.
LeafIndirect(b, leaf) ==
    SubSeq(b.indirect, leaf.first_indirect + 1, leaf.first_indirect + leaf.count)

UbLeaf(bbox, first_indirect, count) ==
    [bbox |-> bbox, kind |-> "Leaf", first_indirect |-> first_indirect,
     count |-> count, left_child |-> 0]

UbEmpty ==
    [bbox |-> RectDefault, kind |-> "Empty", first_indirect |-> 0,
     count |-> 0, left_child |-> 0]

AxisValue(rect, axis) ==
    IF axis = "X" THEN RectCentroid2(rect).x ELSE RectCentroid2(rect).y

\* Option::map_or(Some(aabb), |b| Some(b | aabb))
MapOrUnion(opt, aabb) ==
    IF opt.some THEN Some(RectUnion(opt.v, aabb)) ELSE Some(aabb)

\* The loop of bvh_impl::evalate_sah on acc = [left, num_left, right, num_right].
RECURSIVE EvalateSahLoop(_, _, _, _, _, _)
EvalateSahLoop(acc, items, indirect, k, axis, pos) ==
    IF k >= Len(indirect) THEN acc
    ELSE EvalateSahLoop(
            IF AxisValue(ItemAt(items, indirect, k), axis) < pos
            THEN [acc EXCEPT !.num_left = @ + 1,
                             !.left = MapOrUnion(@, ItemAt(items, indirect, k))]
            ELSE [acc EXCEPT !.num_right = @ + 1,
                             !.right = MapOrUnion(@, ItemAt(items, indirect, k))],
            items, indirect, k + 1, axis, pos)

SahCost(acc) ==
    OptionCost(acc.left, acc.num_left) + OptionCost(acc.right, acc.num_right)

\* bvh_impl::evalate_sah
EvalateSah(items, indirect, axis, pos) ==
    IF SahCost(EvalateSahLoop(
            [left |-> None, num_left |-> 0, right |-> None, num_right |-> 0],
            items, indirect, 0, axis, pos)) > 0
    THEN SahCost(EvalateSahLoop(
            [left |-> None, num_left |-> 0, right |-> None, num_right |-> 0],
            items, indirect, 0, axis, pos))
    ELSE F32Max

\* One `if cost < best_cost` of bvh_impl::find_split_axis.
BetterSplit(best, items, indirect, axis, pos) ==
    IF EvalateSah(items, indirect, axis, pos) < best.cost
    THEN [axis |-> axis, position |-> pos,
          cost |-> EvalateSah(items, indirect, axis, pos)]
    ELSE best

RECURSIVE FindSplitLoop(_, _, _, _)
FindSplitLoop(best, items, indirect, k) ==
    IF k >= Len(indirect) THEN best
    ELSE FindSplitLoop(
            BetterSplit(
                BetterSplit(best, items, indirect, "X",
                            AxisValue(ItemAt(items, indirect, k), "X")),
                items, indirect, "Y",
                AxisValue(ItemAt(items, indirect, k), "Y")),
            items, indirect, k + 1)

\* bvh_impl::find_split_axis
UbFindSplitAxis(b, leaf) ==
    FindSplitLoop([axis |-> "X", position |-> 0, cost |-> F32Max],
                  b.items, LeafIndirect(b, leaf), 0)

\* The loop `while i <= j` of bvh_impl::subdivide: indirect and the final i.
RECURSIVE UbPartitionLoop(_, _, _, _, _)
UbPartitionLoop(b, i, j, axis, position) ==
    IF i > j THEN [indirect |-> b.indirect, i |-> i]
    ELSE IF AxisValue(ItemAt(b.items, b.indirect, i), axis) < position
         THEN UbPartitionLoop(b, i + 1, j, axis, position)
         ELSE UbPartitionLoop([b EXCEPT !.indirect = SwapAt(@, i, j)],
                              i, j - 1, axis, position)

\* A subdivide whose right child starts where the left child starts.
PushChildrenOverlapping(b, node_idx, leaf, indirect, i) ==
    [b EXCEPT
        !.indirect = indirect,
        !.nodes =
            [@ EXCEPT ![node_idx + 1] =
                [@ EXCEPT !.kind = "Branch", !.left_child = Len(b.nodes),
                          !.first_indirect = 0, !.count = 0]]
            \o << UbLeaf(ComputeBoundsIndirect(b.items,
                        SubSeq(indirect, leaf.first_indirect + 1, i)),
                    leaf.first_indirect, i - leaf.first_indirect),
                  UbLeaf(ComputeBoundsIndirect(b.items,
                        SubSeq(indirect, i + 1, leaf.first_indirect + leaf.count)),
                    leaf.first_indirect, leaf.count - (i - leaf.first_indirect)) >>]

\* The two pushes and the Branch assignment of bvh_impl::subdivide.
PushChildren(b, node_idx, leaf, indirect, i) ==
    [b EXCEPT
        !.indirect = indirect,
        !.nodes =
            [@ EXCEPT ![node_idx + 1] =
                [@ EXCEPT !.kind = "Branch", !.left_child = Len(b.nodes),
                          !.first_indirect = 0, !.count = 0]]
            \o << UbLeaf(ComputeBoundsIndirect(b.items,
                        SubSeq(indirect, leaf.first_indirect + 1, i)),
                    leaf.first_indirect, i - leaf.first_indirect),
                  UbLeaf(ComputeBoundsIndirect(b.items,
                        SubSeq(indirect, i + 1, leaf.first_indirect + leaf.count)),
                    i, leaf.count - (i - leaf.first_indirect)) >>]

\* bvh_impl::subdivide on b = [items, nodes, indirect].
RECURSIVE UbSubdivide(_, _)
UbPartitioned(b, node_idx, leaf, part) ==
    IF part.i - leaf.first_indirect = 0 \/ part.i - leaf.first_indirect = leaf.count
    THEN [b EXCEPT !.indirect = part.indirect]
    ELSE UbSubdivide(
            UbSubdivide(PushChildren(b, node_idx, leaf, part.indirect, part.i),
                        Len(b.nodes)),
            Len(b.nodes) + 1)

UbSplit(b, node_idx, leaf, best_split) ==
    IF leaf.count * RectArea(leaf.bbox) < best_split.cost
    THEN b
    ELSE UbPartitioned(b, node_idx, leaf,
            UbPartitionLoop(b, leaf.first_indirect,
                leaf.first_indirect + leaf.count - 1,
                best_split.axis, best_split.position))

UbSubdivide(b, node_idx) ==
    UbSplit(b, node_idx, b.nodes[node_idx + 1],
            UbFindSplitAxis(b, b.nodes[node_idx + 1]))

RECURSIVE RootFold(_, _, _)
RootFold(aabb, items, k) ==
    IF k > Len(items) THEN aabb
    ELSE RootFold(RectUnion(aabb, items[k]), items, k + 1)

\* bvh_impl::build
UbBuildImpl(b) ==
    IF b.items = <<>>
    THEN [b EXCEPT !.nodes = Append(@, UbEmpty)]
    ELSE UbSubdivide(
            [b EXCEPT !.nodes = Append(@,
                UbLeaf(RootFold(RectNew(F32Max, 0 - F32Max, F32Max, 0 - F32Max),
                                b.items, 1),
                       0, Len(b.items)))],
            0)

\* Bvh::rebuild(items, old): `this` takes all three fields of old.
Rebuild(items, old) ==
    UbBuildImpl([items |-> old.items,
                 nodes |-> <<>>,
                 indirect |-> [k \in 1..Len(old.items) |-> k - 1]])

\* Bvh::build(items)
UbBuildNew(items) ==
    Rebuild(items, [items |-> items, nodes |-> <<>>, indirect |-> <<>>])

\* The Leaf arm of bvh_impl::intersect_rect: one push per intersecting item,
\* out holding the items by their position in bvh.items.
RECURSIVE LeafPushes(_, _, _, _, _)
LeafPushes(b, indirect, k, rect, out) ==
    IF k >= Len(indirect) THEN out
    ELSE LeafPushes(b, indirect, k + 1, rect,
            IF RectIntersects(rect, ItemAt(b.items, indirect, k))
            THEN Append(out, indirect[k + 1])
            ELSE out)

\* bvh_impl::intersect_rect
RECURSIVE IntersectRect(_, _, _, _)
IntersectChild(b, child_idx, rect, out) ==
    IF RectIntersects(b.nodes[child_idx + 1].bbox, rect)
    THEN IntersectRect(b, child_idx, rect, out)
    ELSE out

IntersectRect(b, node_idx, rect, out) ==
    CASE b.nodes[node_idx + 1].kind = "Empty" -> out
      [] b.nodes[node_idx + 1].kind = "Leaf" ->
            LeafPushes(b, LeafIndirect(b, b.nodes[node_idx + 1]), 0, rect, out)
      [] b.nodes[node_idx + 1].kind = "Branch" ->
            IntersectChild(b, b.nodes[node_idx + 1].left_child + 1, rect,
                IntersectChild(b, b.nodes[node_idx + 1].left_child, rect, out))

\* The five rectangles of tests::five_rects_bvh, doubled to stay integers.
TestRects ==
    { RectNew(0, 2, 0, 2), RectNew(8, 10, 0, 2), RectNew(0, 2, 4, 6),
      RectNew(4, 6, 4, 6), RectNew(1, 5, 1, 5) }

\* The query rectangles: the items, the query of the test that meets
\* nothing, one that meets everything and one with left > right, top > bottom.
QueryRects ==
    TestRects \cup { RectNew(0 - 2, 0 - 1, 2, 4), RectNew(0, 10, 0, 6),
                     RectNew(5, 1, 5, 1) }

ItemLists(n) == UNION { [1..k -> TestRects] : k \in 0..n }

UbInit ==
    /\ debug \in BOOLEAN
    /\ ub = [pc |-> "new", bvh |-> [items |-> <<>>, nodes |-> <<>>, indirect |-> <<>>],
             rebuilt |-> FALSE, given |-> <<>>, out |-> <<>>, rect |-> RectDefault, queries |-> 0]
    /\ path = Unused /\ cl = Unused /\ ap = Unused /\ bvh = Unused
    /\ fl = Unused /\ fs = Unused /\ pb = Unused /\ nm = Unused
    /\ sn = Unused /\ cv = Unused /\ av = Unused /\ si = Unused /\ pa = Unused

\* let bvh = Bvh::build(&items);
UbBuild(items) ==
    /\ ub.pc = "new"
    /\ ub' = [ub EXCEPT !.pc = "built", !.bvh = UbBuildNew(items)]
    /\ UNCHANGED <<debug, path, cl, ap, bvh, fl, fs, pb, nm, sn, cv, av, si, pa>>

\* let bvh = Bvh::rebuild(&items, bvh);
UbRebuild(items) ==
    /\ ub.pc = "built"
    /\ ~ub.rebuilt
    /\ ub.queries = 0
    /\ ub' = [ub EXCEPT !.bvh = Rebuild(items, ub.bvh), !.rebuilt = TRUE,
                        !.given = items]
    /\ UNCHANGED <<debug, path, cl, ap, bvh, fl, fs, pb, nm, sn, cv, av, si, pa>>

\* bvh.query_rect_intersection(rect, &mut out);
UbQuery(rect) ==
    /\ ub.pc = "built"
    /\ ub.queries < MaxQueries
    /\ ub' = [ub EXCEPT !.out = IntersectRect(ub.bvh, 0, rect, ub.out),
                        !.rect = rect,
                        !.queries = @ + 1]
    /\ UNCHANGED <<debug, path, cl, ap, bvh, fl, fs, pb, nm, sn, cv, av, si, pa>>

UbNext ==
    \/ \E items \in ItemLists(MaxItems) : UbBuild(items)
    \/ \E items \in ItemLists(MaxRebuildItems) : UbRebuild(items)
    \/ \E rect \in QueryRects : UbQuery(rect)

SpecUtilsBvh == UbInit /\ [][UbNext]_vars

\* The items of the hierarchy that intersect rect, by position.
Intersecting(b, rect) ==
    { k \in 0..(Len(b.items) - 1) : RectIntersects(rect, b.items[k + 1]) }

\* What a query appended to out.
Appended == SubSeq(ub'.out, Len(ub.out) + 1, Len(ub'.out))

\* C13: for any list of well-formed rectangles and any query rectangle,
\* query_rect_intersection appends exactly the items whose bounding box
\* intersects the query rectangle, each exactly once; pruning by child
\* bounds drops none of them, and an empty Bvh appends nothing.
C13_QueryAppendsIntersecting ==
    [][ub'.queries = ub.queries + 1 =>
        /\ SubSeq(ub'.out, 1, Len(ub.out)) = ub.out
        /\ Range(Appended) = Intersecting(ub.bvh, ub'.rect)
        /\ Len(Appended) = Cardinality(Intersecting(ub.bvh, ub'.rect))
        /\ (ub.bvh.items = <<>> => Appended = <<>>)]_vars

\* A second query on a hierarchy of three items with a branch at the
\* root has met some items and left out others, after a query that pushed.
C13_Witness ==
    /\ ub.queries = 2
    /\ Len(ub.bvh.items) = 3
    /\ ub.bvh.nodes[1].kind = "Branch"
    /\ ub.out # <<>>
    /\ Intersecting(ub.bvh, ub.rect) # {}
    /\ Cardinality(Intersecting(ub.bvh, ub.rect)) < 3

\* C14: after Bvh::rebuild(items, old), items() returns the list passed as
\* `items`, also when it differs from the list the old Bvh was built from.
C14_RebuildTakesItems ==
    ub.rebuilt => ub.bvh.items = ub.given

\* ---------------------------------------------------------------------
\* Claims on the passes of flatten, under SpecFlatten.
\* ---------------------------------------------------------------------

LeafIds(store) ==
    { n \in 0..(Len(store.nodes) - 1) : store.nodes[n + 1].kind = "Leaf" }

\* The curve records bvh.curves_in(leaf, path) yields for leaf n.
CurvesIn(store, n) ==
    { store.curves[store.nodes[n + 1].first_curve + i] :
        i \in 1..store.nodes[n + 1].num_curves }

\* A curve of one leaf and a curve of another leaf for which the engine's
\* result is non-empty.
CrossingAcrossLeaves(store, p) ==
    \E n \in LeafIds(store), m \in LeafIds(store) :
        /\ n # m
        /\ \E a \in CurvesIn(store, n), b \in CurvesIn(store, m) :
            FindIntersections(CurveAt(p, a.first_point),
                              CurveAt(p, b.first_point)).a # <<>>

\* C15: in every flatten pass, including the first, each curve of an
\* unskipped leaf is tested against the curves of the candidate leaves, and
\* the first non-empty result gives both curves a Replace record that is
\* applied before the next pass: a pass that ends the loop without a record
\* has met no leaf curve and candidate curve with a non-empty result.
C15_EveryPassTests ==
    fl.pc = "exit" => ~CrossingAcrossLeaves(bvh, path)

\* ---------------------------------------------------------------------
\* Segment lengths after ChangeList::apply, under SpecApply.
\* ---------------------------------------------------------------------

\* The sum of (run length - 4) over the records of R that name segment s.
GrowthOfSegment(R, s) ==
    SumSeq([i \in DOMAIN R |->
        IF R[i].segment_id = s THEN Len(R[i].run_x) - 4 ELSE 0])

\* C17: after apply, each segment's length is its previous length plus the
\* sum of (run length - 4) over the records naming it; segments no record
\* names keep their length, the number of segments is unchanged, and x and
\* y have equal lengths.
C17_SegmentLengths ==
    ap.status = "ok" =>
        /\ Len(path.segments) = Len(ap.pre.segments)
        /\ \A s \in 0..(Len(ap.pre.segments) - 1) :
            path.segments[s + 1] =
                ap.pre.segments[s + 1] + GrowthOfSegment(ap.recorded, s)
        /\ Len(path.x) = Len(path.y)

\* Two growing records name the first segment, none names the second.
C17_Witness ==
    /\ ap.status = "ok"
    /\ Len(path.segments) = 2
    /\ Len(ap.recorded) = 2
    /\ \A i \in 1..2 : ap.recorded[i].segment_id = 0 /\ Len(ap.recorded[i].run_x) = 7
    /\ path.segments[1] = ap.pre.segments[1] + 6
    /\ path.segments[2] = ap.pre.segments[2]

\* ---------------------------------------------------------------------
\* Claims on the tree of curve_bvh::Builder::build, under SpecBvh.
\* ---------------------------------------------------------------------

\* The curve records (by 0-based index) of node n's range.
RangeOf(node) == node.first_curve..(node.first_curve + node.num_curves - 1)

\* C18: subdivision is recursive, so every leaf of the built tree holding
\* more than one curve is terminal only because its cheapest candidate
\* split costs at least count * area(bound) of that leaf.
C18_LeavesAreTerminal ==
    bvh.built =>
        \A n \in 1..Len(BvhNodes) :
            (BvhNodes[n].kind = "Leaf" /\ BvhNodes[n].num_curves > 1)
                => FindSplitAxis(BvhNodes, bvh.store.curves, n - 1, path).cost
                        >= BvhNodes[n].num_curves * RectArea(BvhNodes[n].bbox)

\* The smallest rectangle around the control points of a set of curve
\* records.
BoundsOfCurves(S) ==
    LET pts == UNION { { c.first_point + k : k \in 1..4 } : c \in S }
    IN  RectNew(SetMin({ path.x[i] : i \in pts }), SetMax({ path.x[i] : i \in pts }),
                SetMin({ path.y[i] : i \in pts }), SetMax({ path.y[i] : i \in pts }))

\* count * area(union of the coarse bounds), 0 for no curves.
SideCost(S) == IF S = {} THEN 0 ELSE Cardinality(S) * RectArea(BoundsOfCurves(S))

\* The surface-area cost of splitting the curves S at `position` on `axis`.
WeightedArea(S, axis, position) ==
    SideCost({ c \in S : AxisPos(c, axis) < position })
        + SideCost({ c \in S : AxisPos(c, axis) >= position })

LeafCurves(node) == { bvh.store.curves[k + 1] : k \in RangeOf(node) }

\* C19: for a leaf, an axis and a position, evaluate_sah returns
\* count_left * area(bounds of the curves below the position) +
\* count_right * area(bounds of the others), an empty side contributing 0,
\* and find_split_axis returns the lowest such cost among the centroid
\* coordinates of the leaf's curves.
C19_SahIsWeightedArea ==
    bvh.built =>
        \A n \in 1..Len(BvhNodes) :
            (BvhNodes[n].kind = "Leaf" /\ BvhNodes[n].num_curves > 0) =>
                /\ \A axis \in {"X", "Y"} : \A c \in LeafCurves(BvhNodes[n]) :
                    EvaluateSah(bvh.store.curves, BvhNodes[n], axis,
                                AxisPos(c, axis), path)
                        = WeightedArea(LeafCurves(BvhNodes[n]), axis, AxisPos(c, axis))
                /\ FindSplitAxis(BvhNodes, bvh.store.curves, n - 1, path).cost
                        = SetMin({ WeightedArea(LeafCurves(BvhNodes[n]), axis,
                                                AxisPos(c, axis)) :
                                    axis \in {"X", "Y"}, c \in LeafCurves(BvhNodes[n]) })

\* The root leaf build starts from, and the split chosen for it.
RootBefore ==
    LeafNode(ComputeBounds(CollectCurves(path, Len(path.segments)), path),
             0, NumCurves(path))

RootSplit ==
    FindSplitAxis(<<RootBefore, EmptyNode>>,
                  CollectCurves(path, Len(path.segments)), 0, path)

LeftChild == BvhNodes[BvhNodes[1].left_then_right + 1]
RightChild == BvhNodes[BvhNodes[1].left_then_right + 2]

\* The records of `now` are those of `before`, each once.
PermutationOf(now, before) ==
    /\ Len(now) = Len(before)
    /\ Range(now) = Range(before)
    /\ Cardinality(Range(now)) = Len(before)

\* The children are leaves on [first, split) and [split, first + n).
ChildrenCover(left, right, parent) ==
    /\ left.kind = "Leaf" /\ right.kind = "Leaf"
    /\ left.first_curve = parent.first_curve
    /\ right.first_curve = left.first_curve + left.num_curves
    /\ left.num_curves + right.num_curves = parent.num_curves

\* The records below the split position are on the left, the others on
\* the right.
SidesOf(lefts, rights, split) ==
    /\ \A c \in lefts : AxisPos(c, split.axis) < split.pos
    /\ \A c \in rights : AxisPos(c, split.axis) >= split.pos

\* C20: after a committed split of the leaf covering [first, first+n) at
\* position p, the curve records are a permutation of what they were, the
\* left child covers [first, split) and holds exactly the records with
\* centroid < p, the right child covers [split, first+n) and holds exactly
\* those with centroid >= p, and every record lies in exactly one leaf's
\* range.
C20_SplitPartitions ==
    (bvh.built /\ BvhNodes[1].kind = "Branch") =>
        /\ PermutationOf(bvh.store.curves, CollectCurves(path, Len(path.segments)))
        /\ ChildrenCover(LeftChild, RightChild, RootBefore)
        /\ SidesOf(LeafCurves(LeftChild), LeafCurves(RightChild), RootSplit)
        /\ \A k \in 0..(NumCurves(path) - 1) :
            Cardinality({ n \in 1..Len(BvhNodes) :
                BvhNodes[n].kind = "Leaf" /\ k \in RangeOf(BvhNodes[n]) }) = 1

\* Three curves, both children hold some, and the partition has moved
\* records.
C20_Witness ==
    /\ bvh.built
    /\ BvhNodes[1].kind = "Branch"
    /\ NumCurves(path) = 3
    /\ LeftChild.num_curves > 0
    /\ RightChild.num_curves > 0
    /\ bvh.store.curves # CollectCurves(path, Len(path.segments))

\* ---------------------------------------------------------------------
\* The leaf query of the built tree, under SpecBvh.
\* ---------------------------------------------------------------------

\* buffer holds every leaf of the tree other than origin, once, with its
\* node index and its Leaf data.
HoldsOtherLeaves(buffer, nodes, origin) ==
    /\ buffer # Unreachable
    /\ { buffer[i].node : i \in 1..Len(buffer) }
            = LeafIds([nodes |-> nodes]) \ {origin}
    /\ Len(buffer) = Cardinality(LeafIds([nodes |-> nodes]) \ {origin})
    /\ \A i \in 1..Len(buffer) :
        /\ buffer[i].first_curve = nodes[buffer[i].node + 1].first_curve
        /\ buffer[i].num_curves = nodes[buffer[i].node + 1].num_curves

\* C21: for a leaf n of a built tree, find_intersecting_with(n, buffer)
\* clears the buffer and fills it with every leaf other than n, each once
\* with its node index, without visiting an Empty node; when the root is
\* the only leaf the result is empty.
C21_QueryYieldsOtherLeaves ==
    bvh.built =>
        /\ \A n \in LeafIds(bvh.store) :
            HoldsOtherLeaves(FindIntersectingWith(BvhNodes, n), BvhNodes, n)
        /\ bvh.buffer # <<>> => HoldsOtherLeaves(bvh.buffer, BvhNodes, bvh.origin)
        /\ BvhNodes[1].kind = "Leaf" => bvh.buffer = <<>>

\* The query from the right child of a split root has filled the buffer
\* with the left child.
C21_Witness ==
    /\ bvh.built
    /\ BvhNodes[1].kind = "Branch"
    /\ bvh.origin = 3
    /\ Len(bvh.buffer) = 1
    /\ bvh.buffer[1].node = 2

\* ---------------------------------------------------------------------
\* The collapsed branch of the intersection search, under SpecFind.
\* ---------------------------------------------------------------------

\* The pair a collapsed frame stands for.
PairOf(f) == <<f.a.start, f.b.start>>

\* The pair is within the tolerance of `prev` in t_a and in t_b.
NearDuplicate(prev, pair) ==
    ApproxEq(prev[1], pair[1]) /\ ApproxEq(prev[2], pair[2])

\* C22: a branch whose two range lengths have collapsed records
\* (a.start, b.start) if and only if the result list is empty or the pair
\* is not a near-duplicate, in both t_a and t_b, of the pair recorded
\* immediately before it.
C22_RecordsUnlessDuplicate ==
    [][(CanClip /\ ~ClipNegative(Top) /\ Collapsed(Calc(Top))) =>
        ((fs'.intersections = Append(fs.intersections, PairOf(Calc(Top))))
            <=> (\/ fs.intersections = <<>>
                 \/ ~NearDuplicate(fs.intersections[Len(fs.intersections)],
                                   PairOf(Calc(Top)))))]_vars

(***************************************************************************)
(* Bezier::splitn on caller buffers.  A curve and a pair of empty buffers; *)
(* every call hands a sorted list of split parameters from the quarters    *)
(* of the unit interval, so that a second call finds the buffers filled.   *)
(***************************************************************************)
\* The sorted lists of k split parameters.
SortedSplits(k) ==
    { ts \in [1..k -> { [num |-> i, den |-> 4] : i \in 1..3 }] :
        \A i \in 1..(k - 1) : ts[i].num <= ts[i + 1].num }

SnInit ==
    /\ debug \in BOOLEAN
    /\ \E x \in [1..4 -> 0..MaxCoord], y0 \in 0..MaxCoord :
        sn = [curve |-> [x |-> x, y |-> [i \in 1..4 |-> (x[5 - i] + y0) % (MaxCoord + 1)]],
              buffer_x |-> <<>>, buffer_y |-> <<>>,
              start_x |-> 0, start_y |-> 0, t |-> <<>>, calls |-> 0]
    /\ path = Unused /\ cl = Unused /\ ap = Unused /\ bvh = Unused
    /\ fl = Unused /\ fs = Unused /\ pb = Unused /\ nm = Unused /\ ub = Unused
    /\ cv = Unused /\ av = Unused /\ si = Unused /\ pa = Unused

\* curve.splitn(&t, &mut buffer_x, &mut buffer_y)
SnSplitN(t) ==
    /\ sn.calls < MaxSplitCalls
    /\ sn' = [sn EXCEPT !.buffer_x = @ \o SplitN(sn.curve.x, t),
                        !.buffer_y = @ \o SplitN(sn.curve.y, t),
                        !.start_x = Len(sn.buffer_x),
                        !.start_y = Len(sn.buffer_y),
                        !.t = t,
                        !.calls = @ + 1]
    /\ UNCHANGED <<debug, path, cl, ap, bvh, fl, fs, pb, nm, ub, cv, av, si, pa>>

SnNext == \E k \in 0..MaxSplits : \E t \in SortedSplits(k) : SnSplitN(t)

SpecSplitN == SnInit /\ [][SnNext]_vars

\* What the last call appended to a buffer that held `start` points.
AppendedTo(buffer, start) == SubSeq(buffer, start + 1, Len(buffer))

\* The last call appended the k + 1 sub-curves of `v` to the buffer:
\* 3(k + 1) + 1 points, the first and the last those of `v`.
HoldsSubCurves(buffer, start, v, k) ==
    /\ Len(AppendedTo(buffer, start)) = 3 * (k + 1) + 1
    /\ AppendedTo(buffer, start)[1] = v[1]
    /\ AppendedTo(buffer, start)[3 * (k + 1) + 1] = v[4]

\* C23, as stated: for any sorted list of k >= 0 split parameters, splitn
\* appends the 3(k+1)+1 points of the k+1 sub-curves to each buffer after
\* whatever it held; the first appended point is the curve's first control
\* point and the last its last control point.
C23_AppendsAllSubCurves ==
    sn.calls >= 1 =>
        /\ HoldsSubCurves(sn.buffer_x, sn.start_x, sn.curve.x, Len(sn.t))
        /\ HoldsSubCurves(sn.buffer_y, sn.start_y, sn.curve.y, Len(sn.t))

\* C23, amended: the same for k >= 1; for k = 0 splitn appends nothing to
\* either buffer.
C23_AppendsSubCurvesWhenSplit ==
    sn.calls >= 1 =>
        IF Len(sn.t) >= 1
        THEN /\ HoldsSubCurves(sn.buffer_x, sn.start_x, sn.curve.x, Len(sn.t))
             /\ HoldsSubCurves(sn.buffer_y, sn.start_y, sn.curve.y, Len(sn.t))
        ELSE /\ Len(sn.buffer_x) = sn.start_x
             /\ Len(sn.buffer_y) = sn.start_y

\* A second call with two split parameters on buffers that hold the ten
\* points of a first call.
C23_Witness ==
    /\ sn.calls = 2 /\ Len(sn.t) = 2
    /\ sn.start_x = 10 /\ Len(sn.buffer_x) = 20
    /\ sn.buffer_x[11] = sn.curve.x[1] /\ sn.buffer_x[20] = sn.curve.x[4]
    /\ sn.curve.x[1] # sn.curve.x[4]

(***************************************************************************)
(* PixelBuffer::convert (src/pixel_buffer.rs).  A buffer made by           *)
(* PixelBuffer::new, a few PixelBuffer::set calls, then one convert.  A    *)
(* color channel is the quotient [num, den]; the bytes of a pixel are kept *)
(* one by one, an Rgb10a2 pixel as the little-endian bytes of its word.    *)
(***************************************************************************)
\* Color::unknown(r, g, b, a)
ColorUnknown(r, g, b, a) ==
    [r |-> r, g |-> g, b |-> b, a |-> a, space |-> "Unknown"]

\* PixelFormat::read_color(bytes[offset..])
ReadColor(format, bytes, offset) ==
    CASE format = "Rgba8" ->
            ColorUnknown([num |-> bytes[offset], den |-> 255],
                         [num |-> bytes[offset + 1], den |-> 255],
                         [num |-> bytes[offset + 2], den |-> 255],
                         [num |-> bytes[offset + 3], den |-> 255])
      [] format = "Rgb10a2" ->
            ColorUnknown([num |-> bytes[offset + 3] * 4 + bytes[offset + 2] \div 64,
                          den |-> 1023],
                         [num |-> (bytes[offset + 2] % 64) * 16 + bytes[offset + 1] \div 16,
                          den |-> 1023],
                         [num |-> (bytes[offset + 1] % 16) * 64 + bytes[offset] \div 4,
                          den |-> 1023],
                         [num |-> bytes[offset] % 4, den |-> 3])

\* (channel.clamp(0.0, 1.0) * max) as an unsigned integer
Quantize(channel, max) ==
    IF channel.num <= 0 THEN 0
    ELSE IF channel.num >= channel.den THEN max
    ELSE (channel.num * max) \div channel.den

\* PixelFormat::write_color(color, dest): the 4 bytes written.
WriteColorBytes(format, color) ==
    CASE format = "Rgba8" ->
            <<Quantize(color.r, 255), Quantize(color.g, 255),
              Quantize(color.b, 255), Quantize(color.a, 255)>>
      [] format = "Rgb10a2" ->
            <<(Quantize(color.b, 1023) % 64) * 4 + Quantize(color.a, 3),
              (Quantize(color.g, 1023) % 16) * 16 + Quantize(color.b, 1023) \div 64,
              (Quantize(color.r, 1023) % 4) * 64 + Quantize(color.g, 1023) \div 16,
              Quantize(color.r, 1023) \div 4>>

\* Color::in_color_space for the colors a pixel buffer handles: read_color
\* and the Color constants are in Space::Unknown, which is relabelled.
InColorSpace(color, target) ==
    CASE color.space = "Unknown" -> [color EXCEPT !.space = target]
      [] color.space # "Unknown" /\ color.space = target -> color
      [] color.space # "Unknown" /\ color.space # target /\ target = "Unknown" ->
            [color EXCEPT !.space = "Unknown"]

\* Writing the 4 bytes of one pixel at `offset`.
WriteAt(bytes, offset, four) ==
    [o \in DOMAIN bytes |->
        IF o >= offset /\ o < offset + 4 THEN four[o - offset + 1] ELSE bytes[o]]

\* The number of bytes of a buffer.
NumBytes(raw) == Cardinality(DOMAIN raw.bytes)

\* RawPixelBuffer::width and ::height
RawWidth(raw) == raw.row_stride \div BytesPerPixel(raw.format)
RawHeight(raw) == NumBytes(raw) \div raw.row_stride

\* RawPixelBuffer::set(x, y, color)
RawSetBytes(raw, x, y, color) ==
    [raw EXCEPT !.bytes =
        WriteAt(@, raw.row_stride * y + BytesPerPixel(raw.format) * x,
                WriteColorBytes(raw.format, InColorSpace(color, raw.color_space)))]

\* The while loop of RawPixelBuffer::convert.
RECURSIVE ConvertLoop(_, _, _, _, _, _)
ConvertLoop(self, format, color_space, new_bytes, new_buffer_offset, old_buffer_offset) ==
    IF new_buffer_offset < Cardinality(DOMAIN new_bytes)
    THEN ConvertLoop(self, format, color_space,
            WriteAt(new_bytes, new_buffer_offset,
                    WriteColorBytes(format,
                        InColorSpace(ReadColor(self.format, self.bytes, old_buffer_offset),
                                     color_space))),
            new_buffer_offset + BytesPerPixel(format),
            old_buffer_offset + BytesPerPixel(self.format))
    ELSE new_bytes

\* RawPixelBuffer::convert
RawConvert(self, format, color_space) ==
    [RawPixelBufferNew(RawWidth(self), RawHeight(self), format, color_space)
        EXCEPT !.bytes = ConvertLoop(self, format, color_space, @,
                                     BytesPerPixel(format), BytesPerPixel(self.format))]

\* Color::RED, GREEN, BLUE, WHITE and BRIGHT_PINK
Palette ==
    LET zero == [num |-> 0, den |-> 1]
        one == [num |-> 1, den |-> 1]
    IN  { ColorUnknown(one, zero, zero, one), ColorUnknown(zero, one, zero, one),
          ColorUnknown(zero, zero, one, one), ColorUnknown(one, one, one, one),
          ColorUnknown(one, zero, [num |-> 127, den |-> 255], one) }

\* let buffer = PixelBuffer::new(width, height, format, color_space).unwrap();
CvInit ==
    /\ debug \in BOOLEAN
    /\ \E width \in 1..Width, height \in 1..Height,
          format \in PixelFormats, color_space \in Spaces :
        /\ PixelBufferNew(width, height, format, color_space).tag = "Ok"
        /\ cv = [pc |-> "new",
                 raw |-> PixelBufferNew(width, height, format, color_space).raw,
                 sets |-> 0,
                 format |-> format, color_space |-> color_space,
                 shares |-> FALSE,
                 out |-> RawPixelBufferNew(0, 0, format, color_space)]
    /\ path = Unused /\ cl = Unused /\ ap = Unused /\ bvh = Unused
    /\ fl = Unused /\ fs = Unused /\ pb = Unused /\ nm = Unused /\ ub = Unused
    /\ sn = Unused /\ av = Unused /\ si = Unused /\ pa = Unused

\* buffer.set(x, y, color), the only handle of its raw buffer
CvSet(x, y, color) ==
    /\ cv.pc = "new"
    /\ cv.sets < MaxSets
    /\ cv' = [cv EXCEPT !.sets = @ + 1,
                        !.raw = IF x < RawWidth(cv.raw) /\ y < RawHeight(cv.raw)
                                THEN RawSetBytes(cv.raw, x, y, color)
                                ELSE @]
    /\ UNCHANGED <<debug, path, cl, ap, bvh, fl, fs, pb, nm, ub, sn, av, si, pa>>

\* let out = buffer.convert(format, color_space);
CvConvert(format, color_space) ==
    /\ cv.pc = "new"
    /\ cv' = [cv EXCEPT !.pc = "converted",
                        !.format = format,
                        !.color_space = color_space,
                        !.shares = (cv.raw.color_space = color_space
                                        /\ cv.raw.format = format),
                        !.out = IF cv.raw.color_space = color_space
                                        /\ cv.raw.format = format
                                THEN cv.raw
                                ELSE RawConvert(cv.raw, format, color_space)]
    /\ UNCHANGED <<debug, path, cl, ap, bvh, fl, fs, pb, nm, ub, sn, av, si, pa>>

CvNext ==
    \/ \E x \in 0..Width, y \in 0..Height, color \in Palette : CvSet(x, y, color)
    \/ \E format \in PixelFormats, color_space \in Spaces : CvConvert(format, color_space)

SpecConvert == CvInit /\ [][CvNext]_vars

\* The 4 bytes of pixel `index` of a buffer.
PixelBytes(raw, index) ==
    [k \in 1..4 |-> raw.bytes[index * BytesPerPixel(raw.format) + k - 1]]

\* The pixel `index` of `raw`, read in its format, converted to the color
\* space and written in the format.
Converted(raw, index, format, color_space) ==
    WriteColorBytes(format,
        InColorSpace(ReadColor(raw.format, raw.bytes, index * BytesPerPixel(raw.format)),
                     color_space))

\* C24: convert(format, space) returns a handle that shares the source's
\* buffer when format and color space equal the source's; otherwise a new
\* buffer of the same width and height in which every pixel, from index 0
\* to width * height - 1, is the source pixel at the same index read in the
\* source format, converted to the target color space and written in the
\* target format.
C24_ConvertsEveryPixel ==
    cv.pc = "converted" =>
        IF cv.format = cv.raw.format /\ cv.color_space = cv.raw.color_space
        THEN cv.shares
        ELSE /\ ~cv.shares
             /\ cv.out.format = cv.format
             /\ cv.out.color_space = cv.color_space
             /\ RawWidth(cv.out) = RawWidth(cv.raw)
             /\ RawHeight(cv.out) = RawHeight(cv.raw)
             /\ \A index \in 0..(RawWidth(cv.raw) * RawHeight(cv.raw) - 1) :
                    PixelBytes(cv.out, index)
                        = Converted(cv.raw, index, cv.format, cv.color_space)

(***************************************************************************)
(* utils::arrayvec::ArrayVec<T, N> for a T with a destructor.  An element  *)
(* is the number of its creation; `drops` counts the runs of each          *)
(* element's destructor.  A slot past `length` keeps the bits last written *)
(* to it.                                                                  *)
(***************************************************************************)
\* The element no slot holds yet: MaybeUninit::uninit()
Uninit == 0

\* drop_in_place, or a value going out of scope: one run of the destructor
DropOne(drops, element) == [drops EXCEPT ![element] = @ + 1]

\* `for element in self.as_mut_slice() { drop_in_place(element) }`
RECURSIVE DropSlice(_, _, _, _)
DropSlice(drops, array, i, length) ==
    IF i > length THEN drops
    ELSE DropSlice(DropOne(drops, array[i]), array, i + 1, length)

\* `for i in 0..self.length { f(ptr::read(self.as_mut_ptr().add(i))) }`:
\* the closure owns the element it is handed and drops it when it returns.
RECURSIVE ReadEach(_, _, _, _)
ReadEach(drops, array, i, length) ==
    IF i > length THEN drops
    ELSE ReadEach(DropOne(drops, array[i]), array, i + 1, length)

\* Drop for ArrayVec
AvDropImpl(v) ==
    [v EXCEPT !.drops = DropSlice(v.drops, v.array, 1, v.length)]

\* ArrayVec::empty(self, f): the loop, then `self` goes out of scope.
Empty(v) ==
    AvDropImpl([v EXCEPT !.pc = "emptied",
                         !.drops = ReadEach(v.drops, v.array, 1, v.length)])

\* let mut vec = ArrayVec::<T, N>::new();
AvInit ==
    /\ debug \in BOOLEAN
    /\ av = [pc |-> "alive", length |-> 0,
             array |-> [i \in 1..AvCapacity |-> Uninit],
             created |-> 0,
             drops |-> [element \in 1..MaxElements |-> 0]]
    /\ path = Unused /\ cl = Unused /\ ap = Unused /\ bvh = Unused
    /\ fl = Unused /\ fs = Unused /\ pb = Unused /\ nm = Unused /\ ub = Unused
    /\ sn = Unused /\ cv = Unused /\ si = Unused /\ pa = Unused

\* vec.push(T(..)).  At capacity the call panics: the value is dropped and
\* so is the vector as the panic unwinds.
AvPush ==
    /\ av.pc = "alive"
    /\ av.created < MaxElements
    /\ av' = IF av.length < AvCapacity
             THEN [av EXCEPT !.array[av.length + 1] = av.created + 1,
                             !.length = @ + 1,
                             !.created = @ + 1]
             ELSE AvDropImpl([av EXCEPT !.pc = "panicked",
                                        !.created = @ + 1,
                                        !.drops = DropOne(@, av.created + 1)])
    /\ UNCHANGED <<debug, path, cl, ap, bvh, fl, fs, pb, nm, ub, sn, cv, si, pa>>

\* let _ = vec.pop(): the element read out is dropped by the caller.
AvPop ==
    /\ av.pc = "alive"
    /\ av' = IF av.length > 0
             THEN [av EXCEPT !.length = @ - 1,
                             !.drops = DropOne(@, av.array[av.length])]
             ELSE av
    /\ av' # av
    /\ UNCHANGED <<debug, path, cl, ap, bvh, fl, fs, pb, nm, ub, sn, cv, si, pa>>

\* vec.as_mut_slice()[i] = T(..): the old element is dropped in place.
AvAssign(i) ==
    /\ av.pc = "alive"
    /\ av.created < MaxElements
    /\ i < av.length
    /\ av' = [av EXCEPT !.array[i + 1] = av.created + 1,
                        !.created = @ + 1,
                        !.drops = DropOne(@, av.array[i + 1])]
    /\ UNCHANGED <<debug, path, cl, ap, bvh, fl, fs, pb, nm, ub, sn, cv, si, pa>>

\* vec.clear()
AvClear ==
    /\ av.pc = "alive"
    /\ av.length > 0
    /\ av' = [av EXCEPT !.drops = DropSlice(@, av.array, 1, av.length),
                        !.length = 0]
    /\ UNCHANGED <<debug, path, cl, ap, bvh, fl, fs, pb, nm, ub, sn, cv, si, pa>>

\* std::mem::drop(vec)
AvDrop ==
    /\ av.pc = "alive"
    /\ av' = AvDropImpl([av EXCEPT !.pc = "dropped"])
    /\ UNCHANGED <<debug, path, cl, ap, bvh, fl, fs, pb, nm, ub, sn, cv, si, pa>>

\* vec.empty(f)
AvEmpty ==
    /\ av.pc = "alive"
    /\ av' = Empty(av)
    /\ UNCHANGED <<debug, path, cl, ap, bvh, fl, fs, pb, nm, ub, sn, cv, si, pa>>

AvNext ==
    \/ AvPush
    \/ AvPop
    \/ \E i \in 0..(AvCapacity - 1) : AvAssign(i)
    \/ AvClear
    \/ AvDrop
    \/ AvEmpty

SpecArrayVec == AvInit /\ [][AvNext]_vars

\* C25: every element stored in an ArrayVec is dropped exactly once: for
\* any sequence of push, pop and clear followed by dropping the vector or
\* consuming it with empty(f), no element's destructor runs twice and no
\* element is leaked.
C25_DroppedExactlyOnce ==
    /\ \A element \in 1..av.created : av.drops[element] <= 1
    /\ av.pc # "alive" => \A element \in 1..av.created : av.drops[element] = 1

\* ---------------------------------------------------------------------
\* The shape of the tree Bvh::build leaves behind, under SpecUtilsBvh.
\* ---------------------------------------------------------------------

\* The leaves of a tree, by position in bvh.nodes.
UbLeaves(b) == { n \in 1..Len(b.nodes) : b.nodes[n].kind = "Leaf" }

\* The leaves whose range of bvh.indirect holds the item index.
LeavesHolding(b, index) ==
    { n \in UbLeaves(b) :
        \E k \in 1..Len(LeafIndirect(b, b.nodes[n])) :
            LeafIndirect(b, b.nodes[n])[k] = index }

\* The leaf ranges do not overlap and hold each item index once.
RangesPartition(b) ==
    /\ \A index \in 0..(Len(b.items) - 1) : Cardinality(LeavesHolding(b, index)) = 1
    /\ \A n \in UbLeaves(b) : \A k, l \in 1..b.nodes[n].count :
            k # l => LeafIndirect(b, b.nodes[n])[k] # LeafIndirect(b, b.nodes[n])[l]
    /\ \A m, n \in UbLeaves(b) :
            m # n => \/ b.nodes[m].first_indirect + b.nodes[m].count <= b.nodes[n].first_indirect
                     \/ b.nodes[n].first_indirect + b.nodes[n].count <= b.nodes[m].first_indirect

\* C26: for N >= 1 items Bvh::build produces at most 2N - 1 nodes, every
\* leaf holds at least one item and every item index appears in exactly
\* one leaf's range; for N = 0 it produces a single Empty node.
C26_TreeShape ==
    ub.pc # "new" =>
        IF Len(ub.bvh.items) = 0
        THEN ub.bvh.nodes = <<UbEmpty>>
        ELSE /\ Len(ub.bvh.nodes) <= 2 * Len(ub.bvh.items) - 1
             /\ \A n \in UbLeaves(ub.bvh) : ub.bvh.nodes[n].count >= 1
             /\ RangesPartition(ub.bvh)

\* Three items, each in a leaf of its own: 2N - 1 = 5 nodes.
C26_Witness ==
    /\ ub.pc # "new"
    /\ ~ub.rebuilt
    /\ Len(ub.bvh.items) = 3
    /\ Len(ub.bvh.nodes) = 5
    /\ Cardinality(UbLeaves(ub.bvh)) = 3

\* ---------------------------------------------------------------------
\* Termination of the intersection search, under SpecFindFair.
\* ---------------------------------------------------------------------

\* find() has returned its list, or one of the two assertions at the head
\* of the loop has aborted it.
Finished == fs.status \in {"returned", "panic_iterations", "panic_full"}

\* No invocation on the stack has gone round its loop more than
\* MaxIterations times.
LoopsBounded == \A i \in 1..Len(fs.stack) : fs.stack[i].n <= MaxIterations

Points == (0..1) \X (0..1)

\* Point::default()
PointDefault == <<0, 0>>

\* PathBuilder::start_at
StartAt(b, p) ==
    [b EXCEPT !.commands = Append(@, "Start"), !.path_data = Append(@, p)]

\* PathBuilder::line_to
LineTo(b, p) ==
    [b EXCEPT !.commands = Append(@, "LineTo"), !.path_data = Append(@, p)]

\* PathBuilder::quad_to
QuadTo(b, p1, p2) ==
    [b EXCEPT !.commands = @ \o <<"QuadPoint1", "QuadPoint2">>,
              !.path_data = @ \o <<p1, p2>>]

\* PathBuilder::build_inner: the closing line when first != last.
BuildInner(b) ==
    IF b.path_data[1] # b.path_data[Len(b.path_data)]
    THEN LineTo(b, b.path_data[1])
    ELSE b

\* The outcome of one call of next: the iterator and what the call gave.
Outcome(it, out) == [it |-> it, out |-> out]

\* self.path_data[index] is inside the slice
InBounds(it, index) == index < Len(it.path_data)

\* The Command::QuadPoint1 arm of SegmentIter::next.
NextQuad(it) ==
    IF ~InBounds(it, it.cursor * 2) THEN Outcome(it, "panic_index")
    ELSE IF it.cursor + 1 >= Len(it.commands) THEN Outcome(it, "panic_index")
    ELSE IF it.commands[it.cursor + 2] # "QuadPoint2" THEN Outcome(it, "panic_assert")
    ELSE IF ~InBounds(it, (it.cursor + 1) * 2) THEN Outcome(it, "panic_index")
    ELSE Outcome([it EXCEPT !.cursor = @ + 2,
                            !.position = it.path_data[(it.cursor + 1) * 2 + 1]],
                 "Some")

\* The Command::LineTo arm of SegmentIter::next.
NextLine(it) ==
    IF ~InBounds(it, it.cursor * 2) THEN Outcome(it, "panic_index")
    ELSE Outcome([it EXCEPT !.cursor = @ + 1,
                            !.position = it.path_data[it.cursor * 2 + 1]],
                 "Some")

\* SegmentIter::next, `depth` calls deep.  The Command::Start arm calls
\* next again; a call the stack has no room for does not return.
RECURSIVE NextSegment(_, _)
NextSegment(it, depth) ==
    IF depth > MaxStack THEN Outcome(it, "no_return")
    ELSE IF it.cursor >= Len(it.commands) THEN Outcome(it, "None")
    ELSE CASE it.commands[it.cursor + 1] = "Start" ->
                IF ~InBounds(it, it.cursor * 2) THEN Outcome(it, "panic_index")
                ELSE NextSegment([it EXCEPT !.position = it.path_data[it.cursor * 2 + 1]],
                                 depth + 1)
           [] it.commands[it.cursor + 1] = "LineTo" -> NextLine(it)
           [] it.commands[it.cursor + 1] = "QuadPoint1" -> NextQuad(it)
           [] it.commands[it.cursor + 1] = "QuadPoint2" -> Outcome(it, "panic_unreachable")

\* PathBuilder::default()
SiInit ==
    /\ debug \in BOOLEAN
    /\ si = [pc |-> "building",
             commands |-> <<>>, path_data |-> <<>>, calls |-> 0,
             cursor |-> 0, position |-> PointDefault,
             yielded |-> 0, out |-> "Some"]
    /\ path = Unused /\ cl = Unused /\ ap = Unused /\ bvh = Unused
    /\ fl = Unused /\ fs = Unused /\ pb = Unused /\ nm = Unused /\ ub = Unused
    /\ sn = Unused /\ cv = Unused /\ av = Unused /\ pa = Unused

\* builder = builder.start_at(x, y)
SiStartAt(p) ==
    /\ si.pc = "building" /\ si.calls < MaxCalls
    /\ si' = [StartAt(si, p) EXCEPT !.calls = @ + 1]
    /\ UNCHANGED <<debug, path, cl, ap, bvh, fl, fs, pb, nm, ub, sn, cv, av, pa>>

\* builder = builder.line_to(x, y)
SiLineTo(p) ==
    /\ si.pc = "building" /\ si.calls < MaxCalls
    /\ si' = [LineTo(si, p) EXCEPT !.calls = @ + 1]
    /\ UNCHANGED <<debug, path, cl, ap, bvh, fl, fs, pb, nm, ub, sn, cv, av, pa>>

\* builder = builder.quad_to(x1, y1, x2, y2)
SiQuadTo(p1, p2) ==
    /\ si.pc = "building" /\ si.calls < MaxCalls
    /\ si' = [QuadTo(si, p1, p2) EXCEPT !.calls = @ + 1]
    /\ UNCHANGED <<debug, path, cl, ap, bvh, fl, fs, pb, nm, ub, sn, cv, av, pa>>

\* let mut iter = builder.build().iter().unwrap(); an empty builder gives
\* a Path without an iterator.
SiBuild ==
    /\ si.pc = "building"
    /\ si.path_data # <<>>
    /\ si' = [BuildInner(si) EXCEPT !.pc = "iterating"]
    /\ UNCHANGED <<debug, path, cl, ap, bvh, fl, fs, pb, nm, ub, sn, cv, av, pa>>

\* iter.next(), until it has returned None or has not returned
SiNext ==
    /\ si.pc = "iterating"
    /\ si.out = "Some"
    /\ si' = [si EXCEPT !.cursor = NextSegment(si, 1).it.cursor,
                        !.position = NextSegment(si, 1).it.position,
                        !.out = NextSegment(si, 1).out,
                        !.yielded = IF NextSegment(si, 1).out = "Some" THEN @ + 1 ELSE @]
    /\ UNCHANGED <<debug, path, cl, ap, bvh, fl, fs, pb, nm, ub, sn, cv, av, pa>>

SiNextStep ==
    \/ \E p \in Points : SiStartAt(p)
    \/ \E p \in Points : SiLineTo(p)
    \/ \E p1 \in Points, p2 \in Points : SiQuadTo(p1, p2)
    \/ SiBuild
    \/ SiNext

SpecSegmentIter == SiInit /\ [][SiNextStep]_vars

\* The path was built by start_at followed by line_to and quad_to calls.
StartsOnce ==
    /\ si.commands # <<>>
    /\ si.commands[1] = "Start"
    /\ \A i \in 2..Len(si.commands) : si.commands[i] # "Start"

\* The drawing commands of the path, the closing line included.
DrawingCommands ==
    Cardinality({ i \in 1..Len(si.commands) : si.commands[i] \in {"LineTo", "QuadPoint1"} })

\* C28: iterating a Path built by start_at followed by k line_to or quad_to
\* calls terminates: repeated calls of SegmentIter::next yield one Segment
\* per drawing command (plus the closing line added by build) and then
\* None; no call recurses without advancing the cursor and no call indexes
\* path_data out of bounds.
C28_IterationTerminates ==
    (si.pc = "iterating" /\ StartsOnce) =>
        /\ si.out \in {"Some", "None"}
        /\ si.out = "None" => si.yielded = DrawingCommands
        /\ si.yielded <= DrawingCommands

(***************************************************************************)
(* shapes::path::Builder, the Path it builds and its iterators             *)
(* (src/shapes/path.rs).  A point is a pair of integer coordinates; the    *)
(* bounds of a PathSegment are left out.  What find_self_intersection      *)
(* returns for the curve handed to add_cubic is an input of the call.      *)
(* `pushed` and `added` count, for each segment, the points pushed and the *)
(* curves added while it was the segment in progress.                      *)
(***************************************************************************)
PathPoints == {0, 64} \X {0, 64}

\* diff * 0.25 and diff * 0.75 of Builder::line_points
Quarter(v) == v \div 4
ThreeQuarters(v) == (3 * v) \div 4

\* Builder::line_points(p0, p3)
LinePoints(p0, p3) ==
    <<p0,
      <<Quarter(p3[1] - p0[1]), Quarter(p3[2] - p0[2])>>,
      <<ThreeQuarters(p3[1] - p0[1]), ThreeQuarters(p3[2] - p0[2])>>,
      p3>>

\* split2(curve, t1, t2) on one coordinate list: the 10 points of the
\* three parts.
Split2(v, t1, t2) ==
    SubSeq(SplitCoords(v, t1), 1, 3)
        \o SplitCoords(SubSeq(SplitCoords(v, t1), 4, 7), Relative(t2, t1))

\* The points add_cubic pushes for a curve with a self-intersection.
SplitPoints(p0, p1, p2, p3, t1, t2) ==
    [k \in 1..9 |->
        <<Split2(<<p0[1], p1[1], p2[1], p3[1]>>, t1, t2)[k + 1],
          Split2(<<p0[2], p1[2], p2[2], p3[2]>>, t1, t2)[k + 1]>>]

\* The point Builder::cursor returns: self.points[self.points.len() - 1]
LastPoint(b) == b.points[Len(b.points)]

\* The loop over one SegmentIterator: the curves it yields before None.
RECURSIVE CurvesYielded(_, _)
CurvesYielded(cursor, segment_end) ==
    IF cursor + 3 < segment_end
    THEN 1 + CurvesYielded(cursor + 3, segment_end)
    ELSE 0

\* Builder::move_to
MoveTo(b, point) ==
    [b EXCEPT
        !.segments =
            Append(IF b.segment_index.some
                   THEN [@ EXCEPT ![b.segment_index.v + 1].one_past_end = Len(b.points)]
                   ELSE @,
                   [first |-> Len(b.points), one_past_end |-> 0]),
        !.segment_index = Some(Len(b.segments)),
        !.points = Append(@, point),
        !.pushed = Append(@, 1),
        !.added = Append(@, 0)]

\* Pushing the points of `curves` curves onto the segment in progress.
Push(b, points, curves) ==
    [b EXCEPT !.points = @ \o points,
              !.pushed[b.segment_index.v + 1] = @ + Len(points),
              !.added[b.segment_index.v + 1] = @ + curves]

\* Builder::line_to: points[1], points[2] and points[2] again.
PathLineTo(b, point) ==
    IF b.segment_index.some
    THEN Push(b, <<LinePoints(LastPoint(b), point)[2],
                   LinePoints(LastPoint(b), point)[3],
                   LinePoints(LastPoint(b), point)[3]>>, 1)
    ELSE b

\* Builder::add_cubic, `found` being what find_self_intersection returns.
AddCubic(b, p1, p2, p3, found) ==
    IF b.segment_index.some
    THEN IF found.some
         THEN Push(b, SplitPoints(LastPoint(b), p1, p2, p3, found.v[1], found.v[2]), 3)
         ELSE Push(b, <<p1, p2, p3>>, 1)
    ELSE b

\* Builder::close
Close(b) ==
    IF b.segment_index.some
    THEN [(IF b.points[b.segments[b.segment_index.v + 1].first + 1] # LastPoint(b)
           THEN Push(b, SubSeq(LinePoints(LastPoint(b),
                            b.points[b.segments[b.segment_index.v + 1].first + 1]), 2, 4), 1)
           ELSE b)
          EXCEPT !.segments[b.segment_index.v + 1].one_past_end =
                    Len(b.points)
                        + (IF b.points[b.segments[b.segment_index.v + 1].first + 1] # LastPoint(b)
                           THEN 3 ELSE 0),
                 !.segment_index = None]
    ELSE b

\* Builder::default()
PaInit ==
    /\ debug \in BOOLEAN
    /\ pa = [pc |-> "building", segments |-> <<>>, points |-> <<>>,
             segment_index |-> None, pushed |-> <<>>, added |-> <<>>,
             calls |-> 0, ok |-> TRUE, yields |-> <<>>]
    /\ path = Unused /\ cl = Unused /\ ap = Unused /\ bvh = Unused
    /\ fl = Unused /\ fs = Unused /\ pb = Unused /\ nm = Unused /\ ub = Unused
    /\ sn = Unused /\ cv = Unused /\ av = Unused /\ si = Unused

\* b.move_to(point)
PaMoveTo(point) ==
    /\ pa.pc = "building" /\ pa.calls < MaxCalls
    /\ pa' = [MoveTo(pa, point) EXCEPT !.calls = @ + 1, !.ok = TRUE]
    /\ UNCHANGED <<debug, path, cl, ap, bvh, fl, fs, pb, nm, ub, sn, cv, av, si>>

\* b.line_to(point); ok is FALSE when it returned Err(PathNotStarted).
PaLineTo(point) ==
    /\ pa.pc = "building" /\ pa.calls < MaxCalls
    /\ pa' = [PathLineTo(pa, point) EXCEPT !.calls = @ + 1,
                                            !.ok = pa.segment_index.some]
    /\ UNCHANGED <<debug, path, cl, ap, bvh, fl, fs, pb, nm, ub, sn, cv, av, si>>

\* b.add_cubic(p1, p2, p3)
PaAddCubic(p1, p2, p3, found) ==
    /\ pa.pc = "building" /\ pa.calls < MaxCalls
    /\ pa' = [AddCubic(pa, p1, p2, p3, found) EXCEPT !.calls = @ + 1,
                                                      !.ok = pa.segment_index.some]
    /\ UNCHANGED <<debug, path, cl, ap, bvh, fl, fs, pb, nm, ub, sn, cv, av, si>>

\* b.close()
PaClose ==
    /\ pa.pc = "building" /\ pa.calls < MaxCalls
    /\ pa' = [Close(pa) EXCEPT !.calls = @ + 1, !.ok = pa.segment_index.some]
    /\ UNCHANGED <<debug, path, cl, ap, bvh, fl, fs, pb, nm, ub, sn, cv, av, si>>

\* let p = b.build().unwrap();
PaBuild ==
    /\ pa.pc = "building"
    /\ pa' = [pa EXCEPT !.pc = "built", !.ok = TRUE]
    /\ UNCHANGED <<debug, path, cl, ap, bvh, fl, fs, pb, nm, ub, sn, cv, av, si>>

\* for segment in p.iter() { for curve in segment { .. } }: the curves each
\* SegmentIterator yields.
PaIterate ==
    /\ pa.pc = "built"
    /\ pa' = [pa EXCEPT !.pc = "iterated",
                !.yields = [s \in 1..Len(pa.segments) |->
                    CurvesYielded(pa.segments[s].first, pa.segments[s].one_past_end)]]
    /\ UNCHANGED <<debug, path, cl, ap, bvh, fl, fs, pb, nm, ub, sn, cv, av, si>>

PaNext ==
    \/ \E point \in PathPoints : PaMoveTo(point)
    \/ \E point \in PathPoints : PaLineTo(point)
    \/ \E p1 \in PathPoints, p3 \in PathPoints :
        \E found \in {None, Some(<<[num |-> 1, den |-> 4], [num |-> 3, den |-> 4]>>)} :
            PaAddCubic(p1, <<64 - p1[1], p1[2]>>, p3, found)
    \/ PaClose
    \/ PaBuild
    \/ PaIterate

SpecPathBuilder == PaInit /\ [][PaNext]_vars

\* C29: for every Path returned by Builder::build, each segment's range
\* [first, one_past_end) covers all points pushed for that segment, so
\* iterating the path yields every curve that was added,
\* (points in segment - 1) / 3 per segment, whether or not close() was
\* called on the last segment before build.
C29_RangesCoverSegments ==
    /\ pa.pc \in {"built", "iterated"} =>
        \A s \in 1..Len(pa.segments) :
            /\ pa.segments[s].one_past_end - pa.segments[s].first = pa.pushed[s]
            /\ 3 * pa.added[s] = pa.pushed[s] - 1
    /\ pa.pc = "iterated" =>
        \A s \in 1..Len(pa.segments) : pa.yields[s] = pa.added[s]

====
